---- MODULE Spec2Model ----
(***************************************************************************)
(* Model of the iAnonymiser engine (src/core/anonymizer.py).               *)
(*                                                                         *)
(* Strings are sequences of one-character strings, offsets are 0-based and *)
(* half open as in Python.  The regular-expression library (re.compile,    *)
(* finditer) and the enhancer plug-ins are outside the engine: what they   *)
(* return for a text is an input of the call, drawn from bounded sets that *)
(* respect what the library guarantees (matches of one pattern ascend and  *)
(* do not overlap, a group lies inside its match).                         *)
(***************************************************************************)
EXTENDS Integers, Sequences, FiniteSets, TLC

VARIABLES
    \* ---- Anonymizer instance (src/core/anonymizer.py, __init__) ----
    mappings,           \* original value -> placeholder
    reverse_mappings,   \* placeholder -> original value
    counters,           \* prefix -> last number issued
    stats,              \* pattern type -> count of the last anonymize call
    enabled_patterns,   \* pattern type -> BOOLEAN
    custom_patterns,    \* list of <<regex, prefix>>
    preserve_list,      \* list of strings
    compiled_custom,    \* _compiled_custom: list of <<compiled regex, prefix>>
    enhancer_on,        \* an enhancer instance exists and is enabled
    \* ---- what the last call did (observed by the properties) ----
    last,               \* record describing the last operation and its result
    hist,               \* history kept for the temporal claims
    \* ---- one detect call, candidate by candidate ----
    occupied_ranges,    \* list of <<start, end, detection>>
    detections,         \* list of detections
    rs,                 \* position of the detect call and what it was offered
    \* ---- the callers of the instance ----
    session_state,      \* a session state dictionary a caller holds
    requests            \* the API requests being served, statement by statement

vars == <<mappings, reverse_mappings, counters, stats, enabled_patterns,
          custom_patterns, preserve_list, compiled_custom, enhancer_on,
          last, hist, occupied_ranges, detections, rs,
          session_state, requests>>

engineVars == <<mappings, reverse_mappings, counters, stats, enabled_patterns,
                custom_patterns, preserve_list, compiled_custom, enhancer_on,
                last, hist>>

resolverVars == <<occupied_ranges, detections, rs>>

callerVars == <<session_state, requests>>

(***************************************************************************)
(* Bounds                                                                  *)
(***************************************************************************)
\* length of the text of the candidate-by-candidate detect call
MaxPos == 4
\* number of candidates offered in the candidate-by-candidate detect call
MaxOffers == 3

(***************************************************************************)
(* Generic sequence helpers                                                *)
(***************************************************************************)
\* Python slice s[a:b] for 0 <= a, with b clipped to len(s); an enhancer that
\* reports a negative start is taken to report the value from offset 0
Slice(s, a, b) ==
    LET hi == IF b > Len(s) THEN Len(s) ELSE b
        lo == IF a < 0 THEN 0 ELSE a
    IN  IF lo >= hi THEN <<>> ELSE SubSeq(s, lo + 1, hi)

\* list.remove(x): drop the first element equal to x
RECURSIVE RemoveFirst(_, _)
RemoveFirst(s, x) ==
    IF s = <<>> THEN <<>>
    ELSE IF Head(s) = x THEN Tail(s)
    ELSE <<Head(s)>> \o RemoveFirst(Tail(s), x)

\* list without the elements at the (1-based) indices in idx
RECURSIVE DropIndices(_, _, _)
DropIndices(s, idx, i) ==
    IF i > Len(s) THEN <<>>
    ELSE (IF i \in idx THEN <<>> ELSE <<s[i]>>) \o DropIndices(s, idx, i + 1)

(***************************************************************************)
(* Overlap resolver: Anonymizer.detect._check_overlap_and_add              *)
(***************************************************************************)
Detection(value, pattern_type, start, end) ==
    [value |-> value, pattern_type |-> pattern_type,
     start |-> start, end |-> end, placeholder |-> <<>>]

\* the for loop over occupied_ranges, from index i on; toRemove collects the
\* indices marked for removal; rejected is the early "return False"
RECURSIVE ScanOccupied(_, _, _, _, _)
ScanOccupied(occ, i, start, end, toRemove) ==
    IF i > Len(occ) THEN [rejected |-> FALSE, to_remove |-> toRemove]
    ELSE LET s == occ[i][1]
             e == occ[i][2]
             new_len == end - start
             existing_len == e - s
         IN  IF end <= s \/ start >= e
                 THEN ScanOccupied(occ, i + 1, start, end, toRemove)
             ELSE IF start <= s /\ end >= e
                 THEN ScanOccupied(occ, i + 1, start, end, toRemove \cup {i})
             ELSE IF s <= start /\ e >= end
                 THEN [rejected |-> TRUE, to_remove |-> toRemove]
             ELSE IF new_len > existing_len
                 THEN ScanOccupied(occ, i + 1, start, end, toRemove \cup {i})
             ELSE [rejected |-> TRUE, to_remove |-> toRemove]

\* detections.remove(existing) for every popped range, highest index first
RECURSIVE RemovePopped(_, _, _, _)
RemovePopped(dets, occ, idx, i) ==
    IF i < 1 THEN dets
    ELSE IF i \in idx
        THEN RemovePopped(RemoveFirst(dets, occ[i][3]), occ, idx, i - 1)
        ELSE RemovePopped(dets, occ, idx, i - 1)

\* _check_overlap_and_add(start, end, det) on the lists occ and dets
CheckOverlapAndAdd(occ, dets, start, end, det) ==
    LET scan == ScanOccupied(occ, 1, start, end, {})
    IN  IF scan.rejected
            THEN [ret |-> FALSE, occupied |-> occ, detections |-> dets]
            ELSE [ret |-> TRUE,
                  occupied |-> Append(DropIndices(occ, scan.to_remove, 1),
                                      <<start, end, det>>),
                  detections |-> Append(RemovePopped(dets, occ, scan.to_remove,
                                                     Len(occ)), det)]

\* detections.sort(key=lambda d: d.start): a stable sort
RECURSIVE InsertByStart(_, _)
InsertByStart(sorted, d) ==
    IF sorted = <<>> THEN <<d>>
    ELSE IF Head(sorted).start <= d.start
        THEN <<Head(sorted)>> \o InsertByStart(Tail(sorted), d)
        ELSE <<d>> \o sorted

RECURSIVE SortByStart(_)
SortByStart(dets) ==
    IF dets = <<>> THEN <<>>
    ELSE InsertByStart(SortByStart(SubSeq(dets, 1, Len(dets) - 1)),
                       dets[Len(dets)])

(***************************************************************************)
(* Pattern types and placeholder prefixes                                  *)
(***************************************************************************)
\* core/models.py PatternType (the value of each member)
PatternType ==
    {"ipv4", "ipv6", "email", "hostname", "url", "path_windows", "path_unix",
     "uuid", "mac", "phone", "api_key", "jwt", "credit_card", "date",
     "username", "server_name", "iban", "ssn", "private_key",
     "connection_string", "custom"}

\* the keys of DEFAULT_PATTERNS in their order (the catalog priority)
DEFAULT_PATTERNS ==
    <<"private_key", "jwt", "connection_string", "url", "email", "uuid",
      "ipv4", "ipv6", "hostname", "mac", "phone", "api_key", "path_windows",
      "path_unix", "credit_card", "date", "iban", "ssn", "username",
      "server_name">>

\* PREFIXES, each prefix as its characters
PREFIXES ==
    [t \in PatternType |->
        CASE t = "ipv4" -> <<"I", "P">>
          [] t = "ipv6" -> <<"I", "P", "V", "6">>
          [] t = "email" -> <<"E", "M", "A", "I", "L">>
          [] t = "hostname" -> <<"H", "O", "S", "T">>
          [] t = "url" -> <<"U", "R", "L">>
          [] t = "path_windows" -> <<"P", "A", "T", "H">>
          [] t = "path_unix" -> <<"P", "A", "T", "H">>
          [] t = "uuid" -> <<"U", "U", "I", "D">>
          [] t = "mac" -> <<"M", "A", "C">>
          [] t = "phone" -> <<"P", "H", "O", "N", "E">>
          [] t = "api_key" -> <<"K", "E", "Y">>
          [] t = "jwt" -> <<"T", "O", "K", "E", "N">>
          [] t = "credit_card" -> <<"C", "C">>
          [] t = "date" -> <<"D", "A", "T", "E">>
          [] t = "username" -> <<"U", "S", "E", "R">>
          [] t = "server_name" -> <<"S", "E", "R", "V", "E", "R">>
          [] t = "iban" -> <<"I", "B", "A", "N">>
          [] t = "ssn" -> <<"S", "S", "N">>
          [] t = "private_key" -> <<"P", "R", "I", "V", "K", "E", "Y">>
          [] t = "connection_string" -> <<"C", "O", "N", "N", "S", "T", "R">>
          [] OTHER -> <<"V", "A", "L">>]

(***************************************************************************)
(* Strings                                                                 *)
(***************************************************************************)
DigitChars == <<"0", "1", "2", "3", "4", "5", "6", "7", "8", "9">>

IsDigit(c) == \E i \in 1..10 : DigitChars[i] = c

\* int(c) of a digit character
DigitValue(c) == (CHOOSE i \in 1..10 : DigitChars[i] = c) - 1

UpperChars == <<"A", "B", "C", "D", "E", "F", "G", "H", "I", "J", "K", "L", "M",
                "N", "O", "P", "Q", "R", "S", "T", "U", "V", "W", "X", "Y", "Z">>
LowerChars == <<"a", "b", "c", "d", "e", "f", "g", "h", "i", "j", "k", "l", "m",
                "n", "o", "p", "q", "r", "s", "t", "u", "v", "w", "x", "y", "z">>

\* str.lower() of one character, and of a string
LowerChar(c) ==
    IF \E i \in 1..26 : UpperChars[i] = c
        THEN LowerChars[CHOOSE i \in 1..26 : UpperChars[i] = c]
        ELSE c

Lower(s) == [i \in 1..Len(s) |-> LowerChar(s[i])]

\* sub occurs in s at the 0-based offset k
OccursAt(sub, s, k) ==
    /\ k + Len(sub) <= Len(s)
    /\ \A i \in 1..Len(sub) : s[k + i] = sub[i]

\* Python's "sub in s"
Contains(s, sub) == \E k \in 0..Len(s) : OccursAt(sub, s, k)

\* s.count(c) for a single character c
CountChar(s, c) == Cardinality({i \in 1..Len(s) : s[i] = c})

\* s.split(c) for a single character c: the list of parts
RECURSIVE SplitFrom(_, _, _, _)
SplitFrom(s, c, i, cur) ==
    IF i > Len(s) THEN <<cur>>
    ELSE IF s[i] = c THEN <<cur>> \o SplitFrom(s, c, i + 1, <<>>)
    ELSE SplitFrom(s, c, i + 1, Append(cur, s[i]))

Split(s, c) == SplitFrom(s, c, 1, <<>>)

\* int(p) succeeds on a non-empty run of digits (the alphabet of the model
\* has no sign, blank or underscore)
IntParses(p) == p # <<>> /\ \A i \in 1..Len(p) : IsDigit(p[i])

RECURSIVE IntOf(_)
IntOf(p) ==
    IF p = <<>> THEN 0
    ELSE 10 * IntOf(SubSeq(p, 1, Len(p) - 1)) + DigitValue(p[Len(p)])

\* str(n) for n >= 0
RECURSIVE Decimal(_)
Decimal(n) ==
    IF n < 10 THEN <<DigitChars[n + 1]>>
    ELSE Append(Decimal(n \div 10), DigitChars[(n % 10) + 1])

\* the width of the format specification 03d
PadWidth == 3

\* padding that keeps the last three digits
ZeroPad_Truncating(d) ==
    IF Len(d) >= PadWidth THEN SubSeq(d, Len(d) - PadWidth + 1, Len(d))
    ELSE <<"0">> \o <<"0">> \o d

\* f"{n:03d}": zero padded to at least three digits, never truncated
RECURSIVE ZeroPad(_)
ZeroPad(d) == IF Len(d) >= PadWidth THEN d ELSE ZeroPad(<<"0">> \o d)

\* f"[{prefix}_{n:03d}]"
FormatPlaceholder(prefix, n) ==
    <<"[">> \o prefix \o <<"_">> \o ZeroPad(Decimal(n)) \o <<"]">>

(***************************************************************************)
(* Validator: Anonymizer._validate_detection                               *)
(* The result is "True", "False" or "ValueError" (int() of a part that is  *)
(* not a number raises).                                                   *)
(***************************************************************************)
\* all(0 <= int(p) <= 31 for p in parts[:2]) raises at the first part, in
\* order, that int() cannot parse; all() stops at the first part out of range
Ipv4FirstPartsRaise(parts) ==
    \/ ~IntParses(parts[1])
    \/ /\ IntOf(parts[1]) <= 31
       /\ ~IntParses(parts[2])

\* the Luhn sum over the digits taken from the rightmost one
RECURSIVE LuhnSum_NoDoubling(_, _)
\* a checksum that adds the digits without doubling any of them
LuhnSum_NoDoubling(digits, i) ==
    IF i >= Len(digits) THEN 0
    ELSE digits[Len(digits) - i] + LuhnSum_NoDoubling(digits, i + 1)

RECURSIVE LuhnSum(_, _)
LuhnSum(digits, i) ==
    IF i >= Len(digits) THEN 0
    ELSE LET d == digits[Len(digits) - i]
             dd == IF i % 2 = 1
                       THEN (IF 2 * d > 9 THEN 2 * d - 9 ELSE 2 * d)
                       ELSE d
         IN  dd + LuhnSum(digits, i + 1)

DigitsOf(value) ==
    LET idx == {i \in 1..Len(value) : IsDigit(value[i])}
        F[i \in 0..Len(value)] ==
            IF i = 0 THEN <<>>
            ELSE IF i \in idx THEN Append(F[i - 1], DigitValue(value[i]))
            ELSE F[i - 1]
    IN  F[Len(value)]

MinPhoneDigits == 8
MinCardDigits == 13

ValidateDetection(value, pattern_type) ==
    CASE pattern_type = "ipv4" ->
            LET parts == Split(value, ".")
            IN  IF Len(parts) # 4 THEN "False"
                ELSE IF Ipv4FirstPartsRaise(parts) THEN "ValueError"
                ELSE "True"
      [] pattern_type = "hostname" ->
            IF CountChar(value, ".") < 1 THEN "False"
            ELSE IF \A i \in 1..Len(value) : IsDigit(value[i]) \/ value[i] = "."
                THEN "False"
            ELSE "True"
      [] pattern_type = "email" ->
            LET parts == Split(value, "@")
            IN  IF ~Contains(value, <<"@">>)
                   \/ ~Contains(parts[Len(parts)], <<".">>)
                    THEN "False" ELSE "True"
      [] pattern_type = "phone" ->
            IF Len(DigitsOf(value)) < MinPhoneDigits THEN "False" ELSE "True"
      [] pattern_type = "credit_card" ->
            LET digits == DigitsOf(value)
            IN  IF Len(digits) < MinCardDigits THEN "False"
                ELSE IF LuhnSum(digits, 0) % 10 # 0 THEN "False"
                ELSE "True"
      [] pattern_type = "path_unix" ->
            IF OccursAt(<<"h", "t", "t", "p">>, value, 0) THEN "False"
            ELSE IF CountChar(value, "/") < 2 THEN "False"
            ELSE "True"
      [] OTHER -> "True"

\* a filter that preserves nothing
ShouldPreserve_Never(plist, value) == FALSE

\* Anonymizer._should_preserve
ShouldPreserve(plist, value) ==
    \E i \in 1..Len(plist) : Contains(Lower(value), Lower(plist[i]))

(***************************************************************************)
(* The engine after construction: Anonymizer.__init__                      *)
(***************************************************************************)
EmptyMap == [x \in {} |-> <<>>]

NoCall == [op |-> "init"]

EngineInit ==
    /\ mappings = EmptyMap
    /\ reverse_mappings = <<>>
    /\ counters = EmptyMap
    /\ stats = EmptyMap
    /\ enabled_patterns = [t \in PatternType |-> TRUE]
    /\ custom_patterns = <<>>
    /\ preserve_list = <<>>
    /\ compiled_custom = <<>>
    /\ enhancer_on = FALSE
    /\ last = NoCall
    /\ session_state = [held |-> FALSE]
    /\ requests = <<>>
    /\ hist = [calls |-> 0, issued |-> EmptyMap, since |-> EmptyMap,
               first |-> EmptyMap, onlyAnonymize |-> TRUE, restored |-> FALSE]

(***************************************************************************)
(* Placeholder registry: Anonymizer._get_placeholder                       *)
(* reverse_mappings is kept as the list of its <<placeholder, original>>   *)
(* items in insertion order, the order deanonymize walks it in.            *)
(***************************************************************************)
ODKeys(d) == {d[i][1] : i \in 1..Len(d)}

ODGet(d, k) == d[CHOOSE i \in 1..Len(d) : d[i][1] = k][2]

\* d[k] = v: a new key goes last, a known key keeps its place
ODSet(d, k, v) ==
    IF k \in ODKeys(d)
        THEN [i \in 1..Len(d) |-> IF d[i][1] = k THEN <<k, v>> ELSE d[i]]
        ELSE Append(d, <<k, v>>)

Registry(m, rm, c) == [mappings |-> m, reverse_mappings |-> rm, counters |-> c]

\* a registry that issues a new placeholder even for a value it knows
GetPlaceholder_NoReuse(reg, value, prefix) ==
    LET n == (IF prefix \in DOMAIN reg.counters
                  THEN reg.counters[prefix] ELSE 0) + 1
        placeholder == FormatPlaceholder(prefix, n)
    IN  [placeholder |-> placeholder,
         reg |-> Registry((value :> placeholder) @@ reg.mappings,
                          ODSet(reg.reverse_mappings, placeholder, value),
                          (prefix :> n) @@ reg.counters),
         created |-> TRUE]

\* a registry that does not record the reverse entry
GetPlaceholder_NoInverse(reg, value, prefix) ==
    IF value \in DOMAIN reg.mappings
        THEN [placeholder |-> reg.mappings[value], reg |-> reg, created |-> FALSE]
        ELSE LET n == (IF prefix \in DOMAIN reg.counters
                           THEN reg.counters[prefix] ELSE 0) + 1
                 placeholder == FormatPlaceholder(prefix, n)
             IN  [placeholder |-> placeholder,
                  reg |-> Registry((value :> placeholder) @@ reg.mappings,
                                   reg.reverse_mappings,
                                   (prefix :> n) @@ reg.counters),
                  created |-> TRUE]

\* a registry whose counter restarts at every new value
GetPlaceholder_CounterStuck(reg, value, prefix) ==
    IF value \in DOMAIN reg.mappings
        THEN [placeholder |-> reg.mappings[value], reg |-> reg, created |-> FALSE]
        ELSE LET placeholder == FormatPlaceholder(prefix, 1)
             IN  [placeholder |-> placeholder,
                  reg |-> Registry((value :> placeholder) @@ reg.mappings,
                                   ODSet(reg.reverse_mappings, placeholder, value),
                                   (prefix :> 1) @@ reg.counters),
                  created |-> TRUE]

\* a registry that numbers every new value under the prefix of custom values
GetPlaceholder_OnePrefix(reg, value, prefix) ==
    IF value \in DOMAIN reg.mappings
        THEN [placeholder |-> reg.mappings[value], reg |-> reg, created |-> FALSE]
        ELSE LET n == (IF <<"V", "A", "L">> \in DOMAIN reg.counters
                           THEN reg.counters[<<"V", "A", "L">>] ELSE 0) + 1
                 placeholder == FormatPlaceholder(<<"V", "A", "L">>, n)
             IN  [placeholder |-> placeholder,
                  reg |-> Registry((value :> placeholder) @@ reg.mappings,
                                   ODSet(reg.reverse_mappings, placeholder, value),
                                   (<<"V", "A", "L">> :> n) @@ reg.counters),
                  created |-> TRUE]

GetPlaceholder(reg, value, prefix) ==
    IF value \in DOMAIN reg.mappings
        THEN [placeholder |-> reg.mappings[value], reg |-> reg, created |-> FALSE]
        ELSE LET n == (IF prefix \in DOMAIN reg.counters
                           THEN reg.counters[prefix] ELSE 0) + 1
                 placeholder == FormatPlaceholder(prefix, n)
             IN  [placeholder |-> placeholder,
                  reg |-> Registry((value :> placeholder) @@ reg.mappings,
                                   ODSet(reg.reverse_mappings, placeholder, value),
                                   (prefix :> n) @@ reg.counters),
                  created |-> TRUE]

(***************************************************************************)
(* What the regex library and the enhancer report for one call             *)
(***************************************************************************)
\* the texts handed to the engine
Texts == {<<"a", "B">>, <<"a">>}

\* catalog types whose regex the library is asked about in the model
OracleTypes == {"url", "path_windows"}

\* entity labels the enhancer reports
EnhancerLabels == {"PERSON"}

\* custom regexes: BadRegex does not compile, AnyRegex compiles and may match
\* any span, the empty one included
BadRegex == "("
AnyRegex == "z*"
OtherRegex == "y*"
Compiles(regex) == regex # BadRegex

\* matches reported in one call, over all patterns and the enhancer
MaxMatches == 2

RECURSIVE SubsetsUpTo(_, _)
SubsetsUpTo(S, k) ==
    IF k = 0 THEN {{}}
    ELSE LET prev == SubsetsUpTo(S, k - 1)
         IN  prev \cup {A \cup {x} : A \in {B \in prev : Cardinality(B) = k - 1},
                                     x \in S}

\* the regexes the custom loop may run: those cached and those it compiles
RegexesInUse(cpats, cache) ==
    {cache[i][1] : i \in 1..Len(cache)}
        \cup {cpats[i][1] : i \in {j \in 1..Len(cpats) : Compiles(cpats[j][1])}}

\* a reported match is <<key, start, end>>, or <<key, start, end, groups>> for
\* a regex with capture groups, groups being the <<start, end>> of each group
\* in order, <<-1, -1>> for a group that took no part in the match; the key
\* names who reports it.
\* Only an enabled catalog type has its regex run; a catalog regex and the
\* enhancer report non-empty spans, a custom regex may match the empty string.
Slots(text, enabled, cpats, cache, enhOn) ==
    LET n == Len(text)
    IN  {<<<<"cat", t>>, a, b>> : t \in {u \in OracleTypes : enabled[u]},
                a \in 0..(n - 1), b \in 1..n} \cup
        {<<<<"cus", r>>, a, b>> : r \in RegexesInUse(cpats, cache),
                a \in 0..n, b \in 0..n} \cup
        (IF enhOn
            THEN {<<<<"enh", l>>, a, b>> : l \in EnhancerLabels,
                        a \in 0..(n - 1), b \in 1..n}
            ELSE {})

SlotOk(x) == IF x[1][1] = "cus" THEN x[2] <= x[3] ELSE x[2] < x[3]

Before(x, y) == x[2] < y[2] \/ (x[2] = y[2] /\ x[3] < y[3])

\* the matches of one key in the order finditer yields them
RECURSIVE Ascending(_)
Ascending(S) ==
    IF S = {} THEN <<>>
    ELSE LET x == CHOOSE y \in S : \A z \in S \ {y} : Before(y, z)
         IN  <<[start |-> x[2], end |-> x[3],
                groups |-> IF Len(x) >= 4 THEN x[4] ELSE <<>>]>>
                 \o Ascending(S \ {x})

MatchesOf(M, key) == Ascending({x \in M : x[1] = key})

\* matches of one regex do not overlap
OracleOk(M) ==
    /\ \A x \in M : SlotOk(x)
    /\ \A x, y \in M :
          (x # y /\ x[1] = y[1] /\ x[1][1] # "enh" /\ Before(x, y))
              => x[3] <= y[2]

Oracles(text, enabled, cpats, cache, enhOn) ==
    LET S == {x \in Slots(text, enabled, cpats, cache, enhOn) : SlotOk(x)}
    IN  {M \in SubsetsUpTo(S, MaxMatches) : OracleOk(M)}

\* EnhancerResult.to_pattern_type_str, then PatternType(...) with the
\* ValueError fallback to custom
ToPatternType(entity_type) ==
    CASE entity_type \in {"DOMAIN_NAME", "LOCATION", "FQDN", "SUBDOMAIN",
                          "DOMAIN", "TLD"} -> "hostname"
      [] entity_type \in {"PERSON", "NRP", "PII"} -> "username"
      [] entity_type \in {"MEDICAL_LICENSE", "CRYPTO", "SECRET", "API_KEY",
                          "PASSWORD"} -> "api_key"
      [] entity_type \in {"US_SSN", "FR_SSN", "US_PASSPORT",
                          "US_DRIVER_LICENSE", "UK_NHS"} -> "ssn"
      [] entity_type = "EMAIL_ADDRESS" -> "email"
      [] entity_type = "PHONE_NUMBER" -> "phone"
      [] entity_type = "IP_ADDRESS" -> "ipv4"
      [] entity_type = "URL" -> "url"
      [] entity_type = "CREDIT_CARD" -> "credit_card"
      [] entity_type = "IBAN_CODE" -> "iban"
      [] entity_type = "DATE_TIME" -> "date"
      [] OTHER -> "custom"

(***************************************************************************)
(* Anonymizer.detect                                                       *)
(***************************************************************************)
\* lines 345-355 and 385-394: the whole match, or the first group that is
\* not None (match.start(i) is -1 for a group that took no part)
RECURSIVE FirstGroup(_, _)
FirstGroup(groups, i) ==
    IF i > Len(groups) THEN <<>>
    ELSE IF groups[i][1] # -1 THEN groups[i]
    ELSE FirstGroup(groups, i + 1)

GroupSelect(text, match) ==
    LET g == FirstGroup(match.groups, 1)
        start == IF g = <<>> THEN match.start ELSE g[1]
        end == IF g = <<>> THEN match.end ELSE g[2]
    IN  [value |-> Slice(text, start, end), start |-> start, end |-> end]

\* _detect_with_enhancers: the detections of the enabled enhancer
RECURSIVE EnhancerDetections(_, _, _, _, _)
EnhancerDetections(text, results, i, enabled, plist) ==
    IF i > Len(results) THEN <<>>
    ELSE LET r == results[i]
             pattern_type == ToPatternType(r.entity_type)
             rest == EnhancerDetections(text, results, i + 1, enabled, plist)
         IN  IF ~enabled[pattern_type] THEN rest
             ELSE IF ShouldPreserve(plist, r.value) THEN rest
             ELSE <<Detection(r.value, pattern_type, r.start, r.end)>> \o rest

\* the enhancer's reports among the matches: the key is <<"enh", label>> or
\* <<"enh", label, confidence>>, the confidence in tenths
ReportedKeys(M) == {x[1] : x \in {y \in M : y[1][1] = "enh"}}

\* EnhancerResult.confidence, 1.0 when the enhancer gives none
DefaultConfidence == 10
Confidence(key) == IF Len(key) >= 3 THEN key[3] ELSE DefaultConfidence

\* what the enhancer returns, from the reported matches
RECURSIVE EnhancerResults(_, _, _)
EnhancerResults(text, M, keys) ==
    IF keys = {} THEN <<>>
    ELSE LET key == CHOOSE x \in keys : TRUE
             ms == MatchesOf(M, key)
         IN  [i \in 1..Len(ms) |->
                 [value |-> Slice(text, ms[i].start, ms[i].end),
                  entity_type |-> key[2], start |-> ms[i].start,
                  end |-> ms[i].end, confidence |-> Confidence(key)]]
             \o EnhancerResults(text, M, keys \ {key})

\* lines 330-332
RECURSIVE OfferEnhancerDetections(_, _, _)
OfferEnhancerDetections(st, dets, i) ==
    IF i > Len(dets) THEN st
    ELSE LET det == dets[i]
         IN  IF det.start >= 0 /\ det.end > det.start
                 THEN LET r == CheckOverlapAndAdd(st.occupied, st.detections,
                                                  det.start, det.end, det)
                      IN  OfferEnhancerDetections(
                              [st EXCEPT !.occupied = r.occupied,
                                         !.detections = r.detections],
                              dets, i + 1)
                 ELSE OfferEnhancerDetections(st, dets, i + 1)

\* the body of "for match in compiled.finditer(text)" for a catalog pattern
\* (validated, lines 344-370) or a custom pattern (not validated, 384-405)
RECURSIVE OfferMatches(_, _, _, _, _, _, _)
OfferMatches(st, text, matches, j, pattern_type, validated, plist) ==
    IF j > Len(matches) \/ st.raised # "no" THEN st
    ELSE LET g == GroupSelect(text, matches[j])
             v == IF validated THEN ValidateDetection(g.value, pattern_type)
                  ELSE "True"
             det == Detection(g.value, pattern_type, g.start, g.end)
             r == CheckOverlapAndAdd(st.occupied, st.detections,
                                     g.start, g.end, det)
         IN  IF v = "ValueError" THEN [st EXCEPT !.raised = "ValueError"]
             ELSE IF v = "False" \/ ShouldPreserve(plist, g.value)
                 THEN OfferMatches(st, text, matches, j + 1, pattern_type,
                                   validated, plist)
             ELSE OfferMatches([st EXCEPT !.occupied = r.occupied,
                                          !.detections = r.detections],
                               text, matches, j + 1, pattern_type,
                               validated, plist)

\* lines 335-373: the catalog patterns in catalog order
RECURSIVE CatalogLoop(_, _, _, _, _, _)
CatalogLoop(st, text, M, k, enabled, plist) ==
    IF k > Len(DEFAULT_PATTERNS) \/ st.raised # "no" THEN st
    ELSE LET pattern_type == DEFAULT_PATTERNS[k]
         IN  IF ~enabled[pattern_type]
                 THEN CatalogLoop(st, text, M, k + 1, enabled, plist)
                 ELSE CatalogLoop(
                          OfferMatches(st, text,
                                       MatchesOf(M, <<"cat", pattern_type>>),
                                       1, pattern_type, TRUE, plist),
                          text, M, k + 1, enabled, plist)

\* lines 376-408: the custom patterns; i is the 0-based index of the loop
RECURSIVE CustomLoop(_, _, _, _, _, _)
CustomLoop(st, text, M, i, cpats, plist) ==
    IF i >= Len(cpats) \/ st.raised # "no" THEN st
    ELSE LET regex == cpats[i + 1][1]
             prefix == cpats[i + 1][2]
             mustCompile == i >= Len(st.compiled_custom)
             cache == IF mustCompile /\ Compiles(regex)
                          THEN Append(st.compiled_custom, <<regex, prefix>>)
                          ELSE st.compiled_custom
             st1 == [st EXCEPT !.compiled_custom = cache]
         IN  IF mustCompile /\ ~Compiles(regex)
                 \* re.error: continue
                 THEN CustomLoop(st, text, M, i + 1, cpats, plist)
             ELSE IF i >= Len(cache)
                 \* self._compiled_custom[i] is past the end of the list
                 THEN [st1 EXCEPT !.raised = "IndexError"]
             ELSE CustomLoop(
                      OfferMatches([st1 EXCEPT !.applied =
                                        Append(@, <<i, cache[i + 1][1]>>)],
                                   text,
                                   MatchesOf(M, <<"cus", cache[i + 1][1]>>),
                                   1, "custom", FALSE, plist),
                      text, M, i + 1, cpats, plist)

\* detect(text): raised names the exception that leaves detect, "no" if none
Detect(text, M, enabled, cpats, plist, cache, enhOn) ==
    LET st0 == [occupied |-> <<>>, detections |-> <<>>,
                compiled_custom |-> cache, raised |-> "no",
                applied |-> <<>>]
        enh == IF enhOn
                   THEN EnhancerDetections(text,
                            EnhancerResults(text, M, ReportedKeys(M)),
                            1, enabled, plist)
                   ELSE <<>>
        st1 == OfferEnhancerDetections(st0, enh, 1)
        st2 == CatalogLoop(st1, text, M, 1, enabled, plist)
        st3 == CustomLoop(st2, text, M, 0, cpats, plist)
    IN  [raised |-> st3.raised,
         detections |-> IF st3.raised = "no"
                            THEN SortByStart(st3.detections) ELSE <<>>,
         compiled_custom |-> st3.compiled_custom,
         applied |-> st3.applied]

(***************************************************************************)
(* Anonymizer.anonymize and Anonymizer.deanonymize                         *)
(***************************************************************************)
\* a counter that is set to one instead of increased
Bump_Overwrite(st, key) == (key :> 1) @@ st

Bump(st, key) ==
    (key :> ((IF key \in DOMAIN st THEN st[key] ELSE 0) + 1)) @@ st

\* lines 522-529: from the last detection to the first
RECURSIVE ReplaceLoop(_, _, _, _, _, _)
ReplaceLoop(dets, i, reg, result, st, created) ==
    IF i < 1
        THEN [detections |-> dets, reg |-> reg, result |-> result,
              stats |-> st, created |-> created]
    ELSE LET det == dets[i]
             prefix == PREFIXES[det.pattern_type]
             g == GetPlaceholder(reg, det.value, prefix)
             replaced == Slice(result, 0, det.start) \o g.placeholder
                            \o Slice(result, det.end, Len(result))
         IN  ReplaceLoop([dets EXCEPT ![i].placeholder = g.placeholder],
                         i - 1, g.reg, replaced,
                         Bump(st, det.pattern_type),
                         IF g.created
                             THEN Append(created, <<g.placeholder, det.value>>)
                             ELSE created)

\* str.replace(old, new) for a non-empty old
RECURSIVE ReplaceAll(_, _, _, _)
ReplaceAll(s, old, new, k) ==
    IF k >= Len(s) THEN <<>>
    ELSE IF OccursAt(old, s, k)
        THEN new \o ReplaceAll(s, old, new, k + Len(old))
        ELSE <<s[k + 1]>> \o ReplaceAll(s, old, new, k + 1)

\* deanonymize: the items of reverse_mappings in their order
RECURSIVE DeanonymizeFrom(_, _, _)
DeanonymizeFrom(rm, i, result) ==
    IF i > Len(rm) THEN result
    ELSE DeanonymizeFrom(rm, i + 1, ReplaceAll(result, rm[i][1], rm[i][2], 0))

Deanonymize(rm, text) == DeanonymizeFrom(rm, 1, text)

(***************************************************************************)
(* Operations of one engine instance                                       *)
(***************************************************************************)
\* anonymize calls of one session
MaxCalls == 2
\* length of the custom pattern list and of the preserve list
MaxCustom == 2
MaxPreserve == 1

RecordIssued(issued, created) ==
    [ph \in DOMAIN issued \cup {created[i][1] : i \in 1..Len(created)} |->
        IF \E i \in 1..Len(created) : created[i][1] = ph
            THEN created[CHOOSE i \in 1..Len(created) : created[i][1] = ph][2]
            ELSE issued[ph]]

RecordFirst(first, dets) ==
    [v \in DOMAIN first \cup {dets[i].value : i \in 1..Len(dets)} |->
        IF v \in DOMAIN first THEN first[v]
        ELSE dets[CHOOSE i \in 1..Len(dets) : dets[i].value = v].placeholder]

Anonymize(text, M) ==
    /\ hist.calls < MaxCalls
    /\ \E d \in {Detect(text, M, enabled_patterns, custom_patterns,
                        preserve_list, compiled_custom, enhancer_on)} :
       \E r \in {ReplaceLoop(d.detections, Len(d.detections),
                             Registry(mappings, reverse_mappings, counters),
                             text, EmptyMap, <<>>)} :
           /\ compiled_custom' = d.compiled_custom
           /\ IF d.raised # "no"
                 THEN /\ UNCHANGED <<mappings, reverse_mappings, counters, stats>>
                      /\ last' = [op |-> "anonymize", text |-> text,
                                  raised |-> d.raised, detections |-> <<>>,
                                  anonymized_text |-> <<>>, created |-> <<>>,
                                  applied |-> d.applied]
                      /\ hist' = [hist EXCEPT !.calls = @ + 1]
                 ELSE /\ mappings' = r.reg.mappings
                      /\ reverse_mappings' = r.reg.reverse_mappings
                      /\ counters' = r.reg.counters
                      /\ stats' = r.stats
                      /\ last' = [op |-> "anonymize", text |-> text,
                                  raised |-> "no", detections |-> r.detections,
                                  anonymized_text |-> r.result,
                                  created |-> r.created,
                                  applied |-> d.applied]
                      /\ hist' = [hist EXCEPT
                                    !.calls = @ + 1,
                                    !.issued = RecordIssued(@, r.created),
                                    !.since = RecordIssued(@, r.created),
                                    !.first = RecordFirst(@, r.detections)]
    /\ UNCHANGED <<enabled_patterns, custom_patterns, preserve_list, enhancer_on>>
    /\ UNCHANGED <<resolverVars, callerVars>>

AnonymizeCall ==
    \E text \in Texts :
        \E M \in Oracles(text, enabled_patterns, custom_patterns,
                          compiled_custom, enhancer_on) :
            Anonymize(text, M)

\* reset (lines 199-204)
Reset ==
    /\ mappings' = EmptyMap
    /\ reverse_mappings' = <<>>
    /\ counters' = EmptyMap
    /\ stats' = EmptyMap
    /\ last' = [op |-> "reset"]
    /\ hist' = [hist EXCEPT !.first = EmptyMap, !.since = EmptyMap, !.onlyAnonymize = FALSE]
    /\ UNCHANGED <<enabled_patterns, custom_patterns, preserve_list,
                   compiled_custom, enhancer_on>>
    /\ UNCHANGED <<resolverVars, callerVars>>

\* set_pattern_enabled (lines 206-208)
SetPatternEnabled(pattern_type, enabled) ==
    /\ enabled_patterns' = [enabled_patterns EXCEPT ![pattern_type] = enabled]
    /\ last' = [op |-> "set_pattern_enabled", pattern_type |-> pattern_type,
                enabled |-> enabled]
    /\ UNCHANGED <<mappings, reverse_mappings, counters, stats, custom_patterns,
                   preserve_list, compiled_custom, enhancer_on, hist>>
    /\ UNCHANGED <<resolverVars, callerVars>>

\* add_custom_pattern (lines 210-214)
AddCustomPattern(regex, prefix) ==
    /\ Len(custom_patterns) < MaxCustom
    /\ custom_patterns' = Append(custom_patterns, <<regex, prefix>>)
    /\ compiled_custom' = <<>>
    /\ last' = [op |-> "add_custom_pattern", regex |-> regex]
    /\ UNCHANGED <<mappings, reverse_mappings, counters, stats, enabled_patterns,
                   preserve_list, enhancer_on, hist>>
    /\ UNCHANGED <<resolverVars, callerVars>>

\* add_preserve_value (lines 216-218)
AddPreserveValue(value) ==
    /\ Len(preserve_list) < MaxPreserve
    /\ preserve_list' = Append(preserve_list, value)
    /\ last' = [op |-> "add_preserve_value", value |-> value]
    /\ UNCHANGED <<mappings, reverse_mappings, counters, stats, enabled_patterns,
                   custom_patterns, compiled_custom, enhancer_on, hist>>
    /\ UNCHANGED <<resolverVars, callerVars>>

\* set_enhancer_enabled (lines 87-117) for an enhancer whose library is there
SetEnhancerEnabled(enabled) ==
    /\ enhancer_on' = enabled
    /\ last' = [op |-> "set_enhancer_enabled", enabled |-> enabled]
    /\ UNCHANGED <<mappings, reverse_mappings, counters, stats, enabled_patterns,
                   custom_patterns, preserve_list, compiled_custom, hist>>
    /\ UNCHANGED <<resolverVars, callerVars>>

\* What a caller can hand to import_mappings / load_session_state / what a
\* preset file can hold.  The registries are ones an earlier session exported.
SavedRegistries ==
    { Registry(EmptyMap, <<>>, EmptyMap),
      Registry((<<"a">> :> FormatPlaceholder(PREFIXES["url"], 1)),
               << <<FormatPlaceholder(PREFIXES["url"], 1), <<"a">>>> >>,
               (PREFIXES["url"] :> 1)) }

ImportData ==
    {[kind |-> "not_json"], [kind |-> "json_array"]}
        \cup {[kind |-> "json_object", reg |-> r] : r \in SavedRegistries}

SessionStates ==
    {[kind |-> "not_dict"]}
        \cup {[kind |-> "dict_enabled_is_list", reg |-> r] : r \in SavedRegistries}
        \cup {[kind |-> "dict", reg |-> r, disabled |-> {"url"},
               custom_patterns |-> << <<AnyRegex, "TASK">> >>,
               preserve_list |-> <<>>, enhancers_enabled |-> FALSE] :
                r \in SavedRegistries}

Presets ==
    { [found |-> FALSE],
      [found |-> TRUE,
       patterns |-> <<<<"u", "r", "l">>,
                      <<"m", "a", "c", "_", "a", "d", "d", "r", "e", "s", "s">>>>,
       preserve |-> << <<"b">> >>,
       custom_patterns |-> << [regex |-> AnyRegex, prefix |-> "TASK"],
                              [regex |-> OtherRegex, prefix |-> ""] >>] }

\* import_mappings (lines 564-575), format "json"
ImportMappings(data) ==
    /\ CASE data.kind = "not_json" ->
                /\ UNCHANGED <<mappings, reverse_mappings, counters>>
                /\ last' = [op |-> "import_mappings", wellformed |-> FALSE,
                            ret |-> "False", raised |-> "no"]
                /\ UNCHANGED hist
         [] data.kind = "json_array" ->
                /\ UNCHANGED <<mappings, reverse_mappings, counters>>
                /\ last' = [op |-> "import_mappings", wellformed |-> FALSE,
                            ret |-> "none", raised |-> "AttributeError"]
                /\ UNCHANGED hist
         [] data.kind = "json_object" ->
                /\ mappings' = data.reg.mappings
                /\ reverse_mappings' = data.reg.reverse_mappings
                /\ counters' = data.reg.counters
                /\ last' = [op |-> "import_mappings", wellformed |-> TRUE,
                            ret |-> "True", raised |-> "no"]
                /\ hist' = [hist EXCEPT !.first = EmptyMap, !.since = EmptyMap,
                                        !.onlyAnonymize = FALSE]
    /\ UNCHANGED <<stats, enabled_patterns, custom_patterns, preserve_list,
                   compiled_custom, enhancer_on>>
    /\ UNCHANGED <<resolverVars, callerVars>>

\* load_session_state (lines 590-615)
LoadSessionState(state) ==
    /\ CASE state.kind = "not_dict" ->
                /\ UNCHANGED <<mappings, reverse_mappings, counters,
                               enabled_patterns, custom_patterns, preserve_list,
                               enhancer_on>>
                /\ last' = [op |-> "load_session_state", wellformed |-> FALSE,
                            ret |-> "False", raised |-> "no"]
                /\ UNCHANGED hist
         [] state.kind = "dict_enabled_is_list" ->
                /\ mappings' = state.reg.mappings
                /\ reverse_mappings' = state.reg.reverse_mappings
                /\ counters' = state.reg.counters
                /\ UNCHANGED <<enabled_patterns, custom_patterns, preserve_list,
                               enhancer_on>>
                /\ last' = [op |-> "load_session_state", wellformed |-> FALSE,
                            ret |-> "False", raised |-> "no"]
                /\ hist' = [hist EXCEPT !.first = EmptyMap, !.since = EmptyMap,
                                        !.onlyAnonymize = FALSE]
         [] state.kind = "dict" ->
                /\ mappings' = state.reg.mappings
                /\ reverse_mappings' = state.reg.reverse_mappings
                /\ counters' = state.reg.counters
                /\ enabled_patterns' =
                       [pt \in PatternType |-> pt \notin state.disabled]
                /\ custom_patterns' = state.custom_patterns
                /\ preserve_list' = state.preserve_list
                /\ enhancer_on' = state.enhancers_enabled
                /\ last' = [op |-> "load_session_state", wellformed |-> TRUE,
                            ret |-> "True", raised |-> "no"]
                /\ hist' = [hist EXCEPT !.first = EmptyMap, !.since = EmptyMap,
                                        !.onlyAnonymize = FALSE]
    /\ UNCHANGED <<stats, compiled_custom>>
    /\ UNCHANGED <<resolverVars, callerVars>>

\* the value of each PatternType member, as the characters of the string
TypeValue(pt) ==
    CASE pt = "ipv4" -> <<"i", "p", "v", "4">>
      [] pt = "ipv6" -> <<"i", "p", "v", "6">>
      [] pt = "email" -> <<"e", "m", "a", "i", "l">>
      [] pt = "hostname" -> <<"h", "o", "s", "t", "n", "a", "m", "e">>
      [] pt = "url" -> <<"u", "r", "l">>
      [] pt = "path_windows" -> <<"p", "a", "t", "h", "_", "w", "i", "n", "d", "o", "w", "s">>
      [] pt = "path_unix" -> <<"p", "a", "t", "h", "_", "u", "n", "i", "x">>
      [] pt = "uuid" -> <<"u", "u", "i", "d">>
      [] pt = "mac" -> <<"m", "a", "c">>
      [] pt = "phone" -> <<"p", "h", "o", "n", "e">>
      [] pt = "api_key" -> <<"a", "p", "i", "_", "k", "e", "y">>
      [] pt = "jwt" -> <<"j", "w", "t">>
      [] pt = "credit_card" -> <<"c", "r", "e", "d", "i", "t", "_", "c", "a", "r", "d">>
      [] pt = "date" -> <<"d", "a", "t", "e">>
      [] pt = "username" -> <<"u", "s", "e", "r", "n", "a", "m", "e">>
      [] pt = "server_name" -> <<"s", "e", "r", "v", "e", "r", "_", "n", "a", "m", "e">>
      [] pt = "iban" -> <<"i", "b", "a", "n">>
      [] pt = "ssn" -> <<"s", "s", "n">>
      [] pt = "private_key" -> <<"p", "r", "i", "v", "a", "t", "e", "_", "k", "e", "y">>
      [] pt = "connection_string" -> <<"c", "o", "n", "n", "e", "c", "t", "i", "o", "n", "_", "s", "t", "r", "i", "n", "g">>
      [] pt = "custom" -> <<"c", "u", "s", "t", "o", "m">>

\* a lookup that also accepts the member name MAC_ADDRESS, lower-cased
PatternTypeOf_MemberName(name) ==
    IF name = <<"m", "a", "c", "_", "a", "d", "d", "r", "e", "s", "s">> THEN "mac"
    ELSE IF \E pt \in PatternType : TypeValue(pt) = name
        THEN CHOOSE pt \in PatternType : TypeValue(pt) = name
        ELSE "ValueError"

\* PatternType(name): the member with that value, ValueError if there is none
PatternTypeOf(name) ==
    IF \E pt \in PatternType : TypeValue(pt) = name
        THEN CHOOSE pt \in PatternType : TypeValue(pt) = name
        ELSE "ValueError"

\* the preset's custom patterns that have both a regex and a prefix
RECURSIVE PresetCustom(_, _)
PresetCustom(cps, i) ==
    IF i > Len(cps) THEN <<>>
    ELSE (IF cps[i].regex # "" /\ cps[i].prefix # ""
              THEN << <<cps[i].regex, cps[i].prefix>> >> ELSE <<>>)
            \o PresetCustom(cps, i + 1)

\* load_preset (lines 220-248)
LoadPreset(preset) ==
    /\ IF ~preset.found
          THEN /\ UNCHANGED <<enabled_patterns, preserve_list, custom_patterns,
                              compiled_custom>>
               /\ last' = [op |-> "load_preset", preset |-> preset,
                           ret |-> "False"]
          ELSE /\ \E listed \in {{PatternTypeOf(Lower(preset.patterns[i])) :
                                        i \in 1..Len(preset.patterns)}} :
                      enabled_patterns' = [pt \in PatternType |-> pt \in listed]
               /\ preserve_list' = preset.preserve
               /\ custom_patterns' = PresetCustom(preset.custom_patterns, 1)
               /\ compiled_custom' = <<>>
               /\ last' = [op |-> "load_preset", preset |-> preset,
                           ret |-> "True"]
    /\ UNCHANGED <<mappings, reverse_mappings, counters, stats, enhancer_on, hist>>
    /\ UNCHANGED <<resolverVars, callerVars>>

(***************************************************************************)
(* The engine under its callers                                            *)
(***************************************************************************)
Init ==
    /\ EngineInit
    /\ occupied_ranges = <<>>
    /\ detections = <<>>
    /\ rs = [phase |-> "idle"]

ResetCall == Reset
SetPatternEnabledCall ==
    \E pt \in OracleTypes, enabled \in BOOLEAN : SetPatternEnabled(pt, enabled)
AddCustomPatternCall ==
    \E regex \in {BadRegex, AnyRegex} : AddCustomPattern(regex, "CUSTOM")
AddPreserveValueCall == \E value \in {<<"b">>} : AddPreserveValue(value)
SetEnhancerEnabledCall == \E enabled \in BOOLEAN : SetEnhancerEnabled(enabled)
ImportMappingsCall == \E data \in ImportData : ImportMappings(data)
LoadSessionStateCall == \E state \in SessionStates : LoadSessionState(state)
LoadPresetCall == \E preset \in Presets : LoadPreset(preset)

\* the registry under the calls that read or replace it
Next ==
    \/ AnonymizeCall
    \/ ResetCall
    \/ ImportMappingsCall
    \/ LoadSessionStateCall
    \/ LoadPresetCall

Spec == Init /\ [][Next]_vars

\* the custom pattern list and its compiled cache
NextCustom ==
    \/ AddCustomPatternCall
    \/ AnonymizeCall

SpecCustom == Init /\ [][NextCustom]_vars

\* the configuration a detect call reads
NextConfig ==
    \/ SetPatternEnabledCall
    \/ AddPreserveValueCall
    \/ SetEnhancerEnabledCall
    \/ LoadPresetCall
    \/ AnonymizeCall

SpecConfig == Init /\ [][NextConfig]_vars

\* the enabled flags of a catalog type, of the custom type and of the type
\* an enhancer label maps to
FlagTypes == {"url", "custom", "username"}

SetFlagCall ==
    \E pt \in FlagTypes, enabled \in BOOLEAN : SetPatternEnabled(pt, enabled)

AddCompilingPatternCall == AddCustomPattern(AnyRegex, "CUSTOM")

\* anonymize on the one-character text
AnonymizeShortCall ==
    \E M \in Oracles(<<"a">>, enabled_patterns, custom_patterns,
                      compiled_custom, enhancer_on) :
        Anonymize(<<"a">>, M)

NextFlags ==
    \/ SetFlagCall
    \/ AddCompilingPatternCall
    \/ SetEnhancerEnabledCall
    \/ AnonymizeShortCall

SpecFlags == Init /\ [][NextFlags]_vars


(***************************************************************************)
(* One detect call, candidate by candidate.                                *)
(* The candidates are what the three loops of detect hand to               *)
(* _check_overlap_and_add: enhancer detections first (lines 328-332),      *)
(* catalog matches next (334-373), custom matches last (375-408).          *)
(***************************************************************************)
ResolverText == [i \in 1..MaxPos |-> IF i % 2 = 1 THEN "a" ELSE "b"]

Phases == <<"enhancer", "catalog", "custom", "returned">>
PhaseRank(p) == CHOOSE i \in 1..Len(Phases) : Phases[i] = p

\* spans a source can produce: an enhancer detection is offered only with
\* end > start >= 0; a catalog regex never matches the empty string; a custom
\* regex may match it (start = end)
SpansOf(src) ==
    {sp \in (0..MaxPos) \X (0..MaxPos) :
        IF src = "custom" THEN sp[1] <= sp[2] ELSE sp[1] < sp[2]}

TypeOfSource(src) ==
    CASE src = "enhancer" -> "username"
      [] src = "catalog" -> "ipv4"
      [] OTHER -> "custom"

ResolverInit ==
    /\ EngineInit
    /\ occupied_ranges = <<>>
    /\ detections = <<>>
    /\ rs = [phase |-> "enhancer", n |-> 0, offered |-> {},
             cand |-> <<>>, ret |-> FALSE, result |-> <<>>]

\* one call of _check_overlap_and_add from the loop of source src
Offer(src, sp) ==
    /\ rs.phase # "returned"
    /\ PhaseRank(src) >= PhaseRank(rs.phase)
    /\ rs.n < MaxOffers
    /\ LET det == Detection(Slice(ResolverText, sp[1], sp[2]),
                            TypeOfSource(src), sp[1], sp[2])
           r == CheckOverlapAndAdd(occupied_ranges, detections,
                                   sp[1], sp[2], det)
       IN  /\ occupied_ranges' = r.occupied
           /\ detections' = r.detections
           /\ rs' = [rs EXCEPT !.phase = src, !.n = @ + 1,
                               !.offered = @ \cup {det},
                               !.cand = det, !.ret = r.ret]
    /\ UNCHANGED <<engineVars, callerVars>>

OfferEnhancer == \E sp \in SpansOf("enhancer") : Offer("enhancer", sp)
OfferCatalog == \E sp \in SpansOf("catalog") : Offer("catalog", sp)
OfferCustom == \E sp \in SpansOf("custom") : Offer("custom", sp)

\* lines 410-412: sort and return
ReturnDetections ==
    /\ rs.phase # "returned"
    /\ rs' = [rs EXCEPT !.phase = "returned",
                        !.result = SortByStart(detections)]
    /\ UNCHANGED <<occupied_ranges, detections>>
    /\ UNCHANGED <<engineVars, callerVars>>

ResolverNext ==
    \/ OfferEnhancer
    \/ OfferCatalog
    \/ OfferCustom
    \/ ReturnDetections

SpecResolver == ResolverInit /\ [][ResolverNext]_vars

(***************************************************************************)
(* Properties of the overlap resolver                                      *)
(***************************************************************************)
\* the resolver's own test: the two spans do not overlap
Apart(a, b) == a.end <= b.start \/ b.end <= a.start

\* span a contains span b and is not the same span
StrictlyContains(a, b) ==
    /\ a.start <= b.start
    /\ b.end <= a.end
    /\ <<a.start, a.end>> # <<b.start, b.end>>

InList(d, list) == \E i \in 1..Len(list) : list[i] = d

\* C1: the list returned by detect is sorted by start with each detection
\* ending at or before the start of the next one, and after every candidate
\* the accepted intervals are pairwise disjoint.
C1_DetectSortedDisjoint ==
    /\ rs.phase = "returned" =>
          \A i \in 1..(Len(rs.result) - 1) :
              /\ rs.result[i].start <= rs.result[i + 1].start
              /\ rs.result[i].end <= rs.result[i + 1].start
    /\ \A i, j \in 1..Len(occupied_ranges) :
          i # j => Apart(occupied_ranges[i][3], occupied_ranges[j][3])

\* C5: a candidate that overlaps an accepted interval of exactly the same
\* length (partial overlap or identical span) is rejected and the accepted
\* interval stays.
C5_EqualLengthKeepsAccepted ==
    [][(rs'.n = rs.n + 1) =>
          \A i \in 1..Len(occupied_ranges) :
              LET x == occupied_ranges[i][3]
                  c == rs'.cand
              IN  (~Apart(x, c) /\ x.end - x.start = c.end - c.start)
                      => (rs'.ret = FALSE /\ occupied_ranges' = occupied_ranges)
      ]_vars

\* C6: when the span of an offered candidate A strictly contains the span of
\* an offered candidate B, B is not in the returned detections, and when A and
\* B are the only candidates the returned list is exactly <<A>>.  Stated for
\* candidates of positive length, the spans a non-empty match has.
C6_ContainedNeverSurvives ==
    rs.phase = "returned" =>
        \A a, b \in {c \in rs.offered : c.start < c.end} :
            StrictlyContains(a, b) =>
                /\ ~InList(b, rs.result)
                /\ (rs.offered = {a, b} => rs.result = <<a>>)

(***************************************************************************)
(* Properties of the registry                                              *)
(***************************************************************************)
AnonymizeReturned == last.op = "anonymize" /\ last.raised = "no"

\* C2: with no reset and no import in between, every detection replaced by an
\* anonymize call carries the placeholder issued for its value the first time.
C2_PlaceholderStable ==
    AnonymizeReturned =>
        \A i \in 1..Len(last.detections) :
            LET d == last.detections[i]
            IN  /\ d.value \in DOMAIN hist.first
                /\ d.placeholder = hist.first[d.value]

\* a call that replaced a value with a placeholder an earlier call issued
C2_Witness ==
    /\ AnonymizeReturned
    /\ \E i \in 1..Len(last.detections) :
          LET d == last.detections[i]
          IN  /\ d.placeholder \in DOMAIN hist.since
              /\ \A k \in 1..Len(last.created) :
                    last.created[k][1] # d.placeholder

CounterSamples == {1, 9, 10, 99, 100, 999, 1000}

\* C3: from a fresh instance under anonymize calls, no two distinct values
\* share a placeholder, reverse_mappings is the inverse of mappings with as
\* many entries, and distinct counter values (past 999 included) format to
\* distinct placeholders.
C3_RegistryInjective ==
    hist.onlyAnonymize =>
        /\ \A v, w \in DOMAIN mappings : v # w => mappings[v] # mappings[w]
        /\ \A v \in DOMAIN mappings :
              /\ mappings[v] \in ODKeys(reverse_mappings)
              /\ ODGet(reverse_mappings, mappings[v]) = v
        /\ Len(reverse_mappings) = Cardinality(DOMAIN mappings)
        /\ \A n, m \in CounterSamples :
              n # m => FormatPlaceholder(PREFIXES["ipv4"], n)
                           # FormatPlaceholder(PREFIXES["ipv4"], m)

\* two values of one prefix registered by anonymize calls alone
C3_Witness ==
    /\ hist.onlyAnonymize
    /\ \E p \in DOMAIN counters : counters[p] = 2
    /\ Cardinality(DOMAIN mappings) >= 2

\* C4: when neither the text nor a detected value contains a placeholder of
\* the registry, deanonymize gives back the text anonymize was called with.
C4_RoundTrip ==
    (/\ AnonymizeReturned
     /\ \A ph \in ODKeys(reverse_mappings) :
           /\ ~Contains(last.text, ph)
           /\ \A i \in 1..Len(last.detections) :
                 ~Contains(last.detections[i].value, ph))
        => Deanonymize(reverse_mappings, last.anonymized_text) = last.text

CountersKept ==
    \A p \in DOMAIN counters :
        p \in DOMAIN counters' /\ counters'[p] >= counters[p]

\* the placeholders this step issued are new among those of `issued`, or were
\* issued for the same value
NoReissue(issued) ==
    last'.op = "anonymize" =>
        /\ \A k \in 1..Len(last'.created) :
              LET ph == last'.created[k][1]
              IN  ph \in DOMAIN issued => issued[ph] = last'.created[k][2]
        /\ \A k, l \in 1..Len(last'.created) :
              k # l => last'.created[k][1] # last'.created[l][1]

\* C7: over anonymize, reset, import_mappings, load_session_state and
\* load_preset, no counter decreases and no placeholder issued for one value
\* is issued again for another.
C7_CountersNeverDecrease ==
    [][CountersKept /\ NoReissue(hist.issued)]_vars

\* C7 as the code keeps it: every call other than reset, import_mappings and
\* load_session_state keeps each counter at or above its value, and issues no
\* placeholder that was issued for another value since the last of those.
C7_CountersKeptBetweenResets ==
    [][(last'.op \notin {"reset", "import_mappings", "load_session_state"})
          => (CountersKept /\ NoReissue(hist.since))]_vars

\* a call that issued a placeholder with a counter already in use
C7_Witness ==
    /\ AnonymizeReturned
    /\ Len(last.created) >= 1
    /\ \E p \in DOMAIN counters : counters[p] >= 2

\* C8: import_mappings and load_session_state on malformed input return False
\* without raising and leave the registry, the enabled flags, the custom
\* patterns and the preserve list as they were.
C8_MalformedInputLeavesState ==
    [][(/\ last'.op \in {"import_mappings", "load_session_state"}
        /\ ~last'.wellformed)
          => /\ last'.ret = "False"
             /\ last'.raised = "no"
             /\ UNCHANGED <<mappings, reverse_mappings, counters,
                            enabled_patterns, custom_patterns,
                            preserve_list>>]_vars

\* C9: with a regex that does not compile in the custom pattern list, wherever
\* it sits, anonymize returns normally and every custom pattern that compiles
\* has its own regex applied.
C9_MalformedCustomSkipped ==
    (/\ last.op = "anonymize"
     /\ \E i \in 1..Len(custom_patterns) : ~Compiles(custom_patterns[i][1]))
        => /\ last.raised = "no"
           /\ \A i \in 1..Len(custom_patterns) :
                 Compiles(custom_patterns[i][1]) =>
                     \E k \in 1..Len(last.applied) :
                         last.applied[k] = <<i - 1, custom_patterns[i][1]>>

ContainsPreserved(value) ==
    \E i \in 1..Len(preserve_list) :
        \E k \in 0..Len(value) : OccursAt(Lower(preserve_list[i]), Lower(value), k)

\* C10: no detection an anonymize call returns, and no value it adds to the
\* registry, contains an entry of the preserve list, compared in lower case.
C10_PreservedNeverDetected ==
    AnonymizeReturned =>
        /\ \A i \in 1..Len(last.detections) :
              ~ContainsPreserved(last.detections[i].value)
        /\ \A k \in 1..Len(last.created) :
              ~ContainsPreserved(last.created[k][2])

\* a call under a non-empty preserve list that still returned a detection
\* from a text holding a preserved character
C10_Witness ==
    /\ AnonymizeReturned
    /\ preserve_list # <<>>
    /\ ContainsPreserved(last.text)
    /\ Len(last.detections) >= 1

(***************************************************************************)
(* A second instance restored from what the first one exports              *)
(***************************************************************************)
\* export_mappings("json"): json.dumps of the three dictionaries, as
\* json.loads gives it back
ExportMappingsLosesCounters ==
    [kind |-> "json_object",
     reg |-> Registry(mappings, reverse_mappings, EmptyMap)]

ExportMappings ==
    [kind |-> "json_object",
     reg |-> Registry(mappings, reverse_mappings, counters)]

\* get_session_state (lines 577-588); enabled_patterns is written as the
\* dictionary {type value: flag}, kept here as the set of its False keys
GetSessionState ==
    [kind |-> "dict",
     reg |-> Registry(mappings, reverse_mappings, counters),
     disabled |-> {pt \in PatternType : ~enabled_patterns[pt]},
     custom_patterns |-> custom_patterns,
     preserve_list |-> preserve_list,
     enhancers_enabled |-> enhancer_on]

\* Anonymizer().import_mappings(export_mappings("json")): from here on the
\* variables are those of the new instance
ImportExportedMappings ==
    /\ \E data \in {ExportMappings} :
          /\ mappings' = data.reg.mappings
          /\ reverse_mappings' = data.reg.reverse_mappings
          /\ counters' = data.reg.counters
    /\ stats' = EmptyMap
    /\ enabled_patterns' = [t \in PatternType |-> TRUE]
    /\ custom_patterns' = <<>>
    /\ preserve_list' = <<>>
    /\ compiled_custom' = <<>>
    /\ enhancer_on' = FALSE
    /\ last' = [op |-> "import_mappings", wellformed |-> TRUE,
                ret |-> "True", raised |-> "no", exported |-> "mappings"]
    /\ hist' = [hist EXCEPT !.onlyAnonymize = FALSE, !.restored = TRUE]
    /\ UNCHANGED <<resolverVars, callerVars>>

\* Anonymizer().load_session_state(get_session_state())
LoadExportedSession ==
    /\ \E state \in {GetSessionState} :
          /\ mappings' = state.reg.mappings
          /\ reverse_mappings' = state.reg.reverse_mappings
          /\ counters' = state.reg.counters
          /\ enabled_patterns' = [pt \in PatternType |-> pt \notin state.disabled]
          /\ custom_patterns' = state.custom_patterns
          /\ preserve_list' = state.preserve_list
          /\ enhancer_on' = state.enhancers_enabled
    /\ stats' = EmptyMap
    /\ compiled_custom' = <<>>
    /\ last' = [op |-> "load_session_state", wellformed |-> TRUE,
                ret |-> "True", raised |-> "no", exported |-> "session"]
    /\ hist' = [hist EXCEPT !.onlyAnonymize = FALSE, !.restored = TRUE]
    /\ UNCHANGED <<resolverVars, callerVars>>

NextTransfer ==
    \/ AnonymizeShortCall
    \/ SetPatternEnabledCall
    \/ AddCompilingPatternCall
    \/ AddPreserveValueCall
    \/ ImportExportedMappings
    \/ LoadExportedSession

SpecTransfer == Init /\ [][NextTransfer]_vars

(***************************************************************************)
(* Anonymizer.preview                                                      *)
(***************************************************************************)
\* counts that stop after the first detection
PreviewStats_FirstOnly(dets, i, st) ==
    IF dets = <<>> THEN st ELSE Bump(st, dets[1].pattern_type)

\* lines 490-493: from the first detection to the last
RECURSIVE PreviewStats(_, _, _)
PreviewStats(dets, i, st) ==
    IF i > Len(dets) THEN st
    ELSE PreviewStats(dets, i + 1, Bump(st, dets[i].pattern_type))

\* value, type and span of each detection, in order
Located(dets) ==
    [i \in 1..Len(dets) |->
        [value |-> dets[i].value, pattern_type |-> dets[i].pattern_type,
         start |-> dets[i].start, end |-> dets[i].end]]

\* preview (lines 463-499); the HTML rendering is left out.  `anonymize` is
\* what anonymize(text) returns from the same state for the same matches.
Preview(text, M) ==
    /\ hist.calls < MaxCalls
    /\ \E d \in {Detect(text, M, enabled_patterns, custom_patterns,
                        preserve_list, compiled_custom, enhancer_on)} :
       \E r \in {ReplaceLoop(d.detections, Len(d.detections),
                             Registry(mappings, reverse_mappings, counters),
                             text, EmptyMap, <<>>)} :
           /\ compiled_custom' = d.compiled_custom
           /\ last' = [op |-> "preview", text |-> text, raised |-> d.raised,
                       detections |-> d.detections,
                       stats |-> IF d.raised = "no"
                                    THEN PreviewStats(d.detections, 1, EmptyMap)
                                    ELSE EmptyMap,
                       anonymize |-> [detections |-> Located(r.detections),
                                      stats |-> r.stats]]
    /\ hist' = [hist EXCEPT !.calls = @ + 1]
    /\ UNCHANGED <<mappings, reverse_mappings, counters, stats,
                   enabled_patterns, custom_patterns, preserve_list,
                   enhancer_on>>
    /\ UNCHANGED <<resolverVars, callerVars>>

PreviewCall ==
    \E text \in Texts :
        \E M \in Oracles(text, enabled_patterns, custom_patterns,
                          compiled_custom, enhancer_on) :
            Preview(text, M)

NextPreview ==
    \/ PreviewCall
    \/ AnonymizeShortCall
    \/ AddCompilingPatternCall
    \/ SetEnhancerEnabledCall

SpecPreview == Init /\ [][NextPreview]_vars

(***************************************************************************)
(* deanonymize on registries that hold placeholder-shaped originals        *)
(***************************************************************************)
Placeholder(pattern_type, n) == FormatPlaceholder(PREFIXES[pattern_type], n)

\* registries as anonymize leaves them: ChainedRegistry is the one after
\* anonymize("a then [IP_001]") with a custom pattern matching "[IP_001]",
\* where the literal is replaced first (the loop runs from the end)
ChainedRegistry ==
    Registry((Placeholder("ipv4", 1) :> Placeholder("custom", 1))
                @@ (<<"a">> :> Placeholder("ipv4", 1)),
             << <<Placeholder("custom", 1), Placeholder("ipv4", 1)>>,
                <<Placeholder("ipv4", 1), <<"a">>>> >>,
             (PREFIXES["custom"] :> 1) @@ (PREFIXES["ipv4"] :> 1))

DeanonRegistries ==
    { Registry(EmptyMap, <<>>, EmptyMap),
      Registry((<<"a">> :> Placeholder("url", 1)),
               << <<Placeholder("url", 1), <<"a">>>> >>,
               (PREFIXES["url"] :> 1)),
      Registry((<<"a">> :> Placeholder("url", 1))
                  @@ (<<"B">> :> Placeholder("url", 2)),
               << <<Placeholder("url", 1), <<"a">>>>,
                  <<Placeholder("url", 2), <<"B">>>> >>,
               (PREFIXES["url"] :> 2)),
      ChainedRegistry }

\* pieces a text to restore is made of: a plain character, registered
\* placeholders, and a placeholder-shaped token no registry holds
DeanonPieces ==
    { <<"a">>, Placeholder("url", 1), Placeholder("url", 2),
      Placeholder("custom", 1), Placeholder("ipv4", 1), Placeholder("url", 9) }

DeanonTexts ==
    {<<>>} \cup DeanonPieces \cup {p \o q : p, q \in DeanonPieces}

ImportRegistryCall ==
    \E r \in DeanonRegistries :
        ImportMappings([kind |-> "json_object", reg |-> r])

\* a call of deanonymize (lines 538-543)
DeanonymizeText(text) ==
    /\ last' = [op |-> "deanonymize", text |-> text, raised |-> "no",
                result |-> Deanonymize(reverse_mappings, text)]
    /\ UNCHANGED <<mappings, reverse_mappings, counters, stats,
                   enabled_patterns, custom_patterns, preserve_list,
                   compiled_custom, enhancer_on, hist>>
    /\ UNCHANGED <<resolverVars, callerVars>>

DeanonymizeCall == \E text \in DeanonTexts : DeanonymizeText(text)

NextDeanonymize ==
    \/ ImportRegistryCall
    \/ DeanonymizeCall

SpecDeanonymize == Init /\ [][NextDeanonymize]_vars

(***************************************************************************)
(* Placeholder numbering around the padding width                          *)
(***************************************************************************)
\* counters a long session has reached, as import_mappings restores them
CounterStarts == {8, 9, 98, 99, 998, 999}

ImportCountersCall ==
    \E n \in CounterStarts :
        ImportMappings([kind |-> "json_object",
                        reg |-> Registry(EmptyMap, <<>>,
                                    [p \in {PREFIXES[t] : t \in OracleTypes}
                                        |-> n])])

NextFormat ==
    \/ ImportCountersCall
    \/ AnonymizeCall

SpecFormat == Init /\ [][NextFormat]_vars

\* C11: while a pattern type is disabled, no call returns a detection of that
\* type, whichever source produced the candidate, and set_pattern_enabled
\* changes the flag of no other type.
C11_DisabledTypeNotDetected ==
    [][/\ (last'.op = "anonymize" /\ last'.raised = "no") =>
              \A i \in 1..Len(last'.detections) :
                  enabled_patterns[last'.detections[i].pattern_type]
       /\ last'.op = "set_pattern_enabled" =>
              \A t \in PatternType \ {last'.pattern_type} :
                  enabled_patterns'[t] = enabled_patterns[t]]_vars

IsExport(call) == "exported" \in DOMAIN call

\* C12: a fresh instance that loads what another instance exported has the
\* same mappings, reverse_mappings and counters and, for a session state, the
\* same enabled flags, custom patterns and preserve list; afterwards a mapped
\* value keeps its placeholder and a new value gets a placeholder that was
\* not in the registry.
C12_ExportImportRoundTrip ==
    [][/\ (last'.op \in {"import_mappings", "load_session_state"}
             /\ IsExport(last')) =>
              /\ last'.ret = "True"
              /\ mappings' = mappings
              /\ reverse_mappings' = reverse_mappings
              /\ counters' = counters
              /\ last'.exported = "session" =>
                    /\ enabled_patterns' = enabled_patterns
                    /\ custom_patterns' = custom_patterns
                    /\ preserve_list' = preserve_list
       /\ (hist.restored /\ last'.op = "anonymize" /\ last'.raised = "no") =>
              /\ \A i \in 1..Len(last'.detections) :
                    LET d == last'.detections[i]
                    IN  d.value \in DOMAIN mappings =>
                            d.placeholder = mappings[d.value]
              /\ \A k \in 1..Len(last'.created) :
                    /\ last'.created[k][1] \notin ODKeys(reverse_mappings)
                    /\ \A v \in DOMAIN mappings :
                          mappings[v] # last'.created[k][1]]_vars

\* a restored instance that replaced a value mapped before the export and
\* issued a placeholder for a new one under a counter already in use
C12_Witness ==
    /\ hist.restored
    /\ AnonymizeReturned
    /\ Len(last.created) >= 1
    /\ \E i \in 1..Len(last.detections) :
          \A k \in 1..Len(last.created) :
              last.created[k][1] # last.detections[i].placeholder
    /\ \E p \in DOMAIN counters : counters[p] >= 2

\* C13: preview returns the detections (value, type, start, end, in order)
\* and the per-type counts that anonymize returns for the same text under the
\* same configuration, and leaves mappings, reverse_mappings and counters as
\* they were.
C13_PreviewMatchesAnonymize ==
    [][(last'.op = "preview") =>
          /\ UNCHANGED <<mappings, reverse_mappings, counters>>
          /\ last'.raised = "no" =>
                /\ Located(last'.detections) = last'.anonymize.detections
                /\ last'.stats = last'.anonymize.stats]_vars

\* a preview of two detections of different types on a registry that holds
\* a mapping
C13_Witness ==
    /\ last.op = "preview"
    /\ last.raised = "no"
    /\ Len(last.detections) = 2
    /\ last.detections[1].pattern_type # last.detections[2].pattern_type
    /\ DOMAIN mappings # {}

\* the text in which each occurrence of a registered placeholder, found from
\* left to right, stands replaced by its original and all else is kept
RECURSIVE Restored(_, _, _)
Restored(rm, text, k) ==
    IF k >= Len(text) THEN <<>>
    ELSE IF \E i \in 1..Len(rm) : OccursAt(rm[i][1], text, k)
        THEN LET i == CHOOSE j \in 1..Len(rm) : OccursAt(rm[j][1], text, k)
             IN  rm[i][2] \o Restored(rm, text, k + Len(rm[i][1]))
        ELSE <<text[k + 1]>> \o Restored(rm, text, k + 1)

\* C14: deanonymize replaces every occurrence of a registered placeholder by
\* its original value, keeps every other character (placeholder-shaped tokens
\* without a mapping included), does not raise, changes no engine state, and
\* returns its input when the registry is empty.
C14_DeanonymizeRestores ==
    [][(last'.op = "deanonymize") =>
          /\ last'.raised = "no"
          /\ last'.result = Restored(reverse_mappings, last'.text, 0)
          /\ reverse_mappings = <<>> => last'.result = last'.text
          /\ UNCHANGED <<mappings, reverse_mappings, counters, stats,
                         enabled_patterns, custom_patterns, preserve_list,
                         compiled_custom, enhancer_on>>]_vars

\* ph is '[' + prefix + '_' + N + ']' with N the decimal writing of n, zero
\* padded to three digits and never longer than needed beyond that
WrittenAs(ph, prefix, n) ==
    LET lp == Len(prefix)
        N == SubSeq(ph, lp + 3, Len(ph) - 1)
    IN  /\ Len(ph) >= lp + 6
        /\ ph[1] = "["
        /\ SubSeq(ph, 2, lp + 1) = prefix
        /\ ph[lp + 2] = "_"
        /\ ph[Len(ph)] = "]"
        /\ \A i \in 1..Len(N) : IsDigit(N[i])
        /\ Len(N) >= 3
        /\ Len(N) > 3 => N[1] # "0"
        /\ IntOf(N) = n

CounterBefore(prefix) == IF prefix \in DOMAIN counters THEN counters[prefix] ELSE 0

\* C15: every placeholder issued is '[' + prefix + '_' + N + ']' with N the
\* value of the prefix's counter after its increment, zero padded to at least
\* three digits: 001 for the first of a prefix, written in full above 999.
C15_PlaceholderFormat ==
    [][(last'.op = "anonymize") =>
          /\ \A k \in 1..Len(last'.created) :
                \E prefix \in DOMAIN counters' :
                    \E n \in (CounterBefore(prefix) + 1)..counters'[prefix] :
                        WrittenAs(last'.created[k][1], prefix, n)
          /\ \A prefix \in DOMAIN counters' :
                \A n \in (CounterBefore(prefix) + 1)..counters'[prefix] :
                    \E k \in 1..Len(last'.created) :
                        WrittenAs(last'.created[k][1], prefix, n)]_vars

\* a call that issued the placeholders 1000 and 1001 of one prefix
C15_Witness ==
    /\ AnonymizeReturned
    /\ Len(last.created) = 2
    /\ \E prefix \in DOMAIN counters :
          /\ counters[prefix] = 1001
          /\ \A k \in 1..2 : Len(last.created[k][1]) = Len(prefix) + 7

(***************************************************************************)
(* The validator called on card numbers: _validate_detection with           *)
(* PatternType.CREDIT_CARD.  The values are digit strings of 12, 13 and 16  *)
(* digits, bare, with one separator between two digits, or grouped by four  *)
(* as the catalog's card regex allows.                                      *)
(***************************************************************************)
Card366 == <<"4", "5", "3", "2", "0", "1", "5", "1", "1", "2", "8", "3", "0", "3", "6", "6">>
Card367 == <<"4", "5", "3", "2", "0", "1", "5", "1", "1", "2", "8", "3", "0", "3", "6", "7">>

CardBases ==
    { Card366, Card367,
      <<"4", "2", "2", "2", "2", "2", "2", "2", "2", "2", "2", "2", "2">>,
      <<"4", "2", "2", "2", "2", "2", "2", "2", "2", "2", "2", "2", "3">>,
      <<"4", "2", "2", "2", "2", "2", "2", "2", "2", "2", "2", "2">>,
      <<"0", "0", "0", "0", "0", "0", "0", "0", "0", "0", "0", "0">> }

Separators == {" ", "-"}

WithSeparator(base, k, sep) ==
    SubSeq(base, 1, k) \o <<sep>> \o SubSeq(base, k + 1, Len(base))

RECURSIVE Grouped(_, _)
Grouped(base, sep) ==
    IF Len(base) <= 4 THEN base
    ELSE SubSeq(base, 1, 4) \o <<sep>> \o Grouped(SubSeq(base, 5, Len(base)), sep)

CardValues ==
    CardBases
    \cup { WithSeparator(b, k, sep) : b \in CardBases, k \in 1..11, sep \in Separators }
    \cup { Grouped(b, sep) : b \in CardBases, sep \in Separators }

\* _validate_detection reads its arguments only; the call is recorded
Validate(value, pattern_type) ==
    /\ last' = [op |-> "validate", value |-> value, pattern_type |-> pattern_type,
                ret |-> ValidateDetection(value, pattern_type)]
    /\ UNCHANGED <<mappings, reverse_mappings, counters, stats, enabled_patterns,
                   custom_patterns, preserve_list, compiled_custom, enhancer_on,
                   hist, occupied_ranges, detections, rs>>
    /\ UNCHANGED callerVars

ValidateCall == \E value \in CardValues : Validate(value, "credit_card")

NextValidate == ValidateCall

SpecValidate == Init /\ [][NextValidate]_vars

RECURSIVE SumTo(_, _)
SumTo(f, n) == IF n = 0 THEN 0 ELSE f[n] + SumTo(f, n - 1)

\* the digits of a value, left to right
DigitValues(value) ==
    LET digitsOnly == SelectSeq(value, IsDigit)
    IN  [i \in 1..Len(digitsOnly) |-> DigitValue(digitsOnly[i])]

\* the digit at position i, doubled and reduced by 9 when above 9 if it is an
\* even number of places from the right end (the rightmost being place 1)
CardTerm(ds, i) ==
    LET place == Len(ds) - i + 1
    IN  IF place % 2 = 0
        THEN (IF 2 * ds[i] > 9 THEN 2 * ds[i] - 9 ELSE 2 * ds[i])
        ELSE ds[i]

CardChecksum(ds) == SumTo([i \in 1..Len(ds) |-> CardTerm(ds, i)], Len(ds))

\* C16: validate(value, credit_card) is true exactly when the value has at
\* least 13 digits whose checksum (every second digit from the right doubled,
\* minus 9 when above 9) is a multiple of 10; 4532015112830366 is accepted,
\* 4532015112830367 is rejected, and separators do not change the result.
C16_CardChecksum ==
    (last.op = "validate" /\ last.pattern_type = "credit_card") =>
        LET ds == DigitValues(last.value)
        IN  /\ last.ret \in {"True", "False"}
            /\ (last.ret = "True") <=> (Len(ds) >= 13 /\ CardChecksum(ds) % 10 = 0)
            /\ last.value = Card366 => last.ret = "True"
            /\ last.value = Card367 => last.ret = "False"
            /\ last.ret = ValidateDetection(SelectSeq(last.value, IsDigit),
                                            "credit_card")

\* a card number written in groups of four with dashes is accepted
C16_Witness ==
    /\ last.op = "validate"
    /\ last.value = Grouped(Card366, "-")
    /\ last.ret = "True"

(***************************************************************************)
(* anonymize on a text with one e-mail address and one IPv4 address.        *)
(* ExampleMatches is what the catalog regexes report on ExampleText: the    *)
(* address, the IP, and the host name inside the address.                   *)
(***************************************************************************)
ExampleText == <<"a", "@", "b", ".", "c", "o", " ", "1", ".", "2", ".", "3", ".", "4">>

ExampleMatches ==
    { <<<<"cat", "email">>, 0, 6>>,
      <<<<"cat", "ipv4">>, 7, 14>>,
      <<<<"cat", "hostname">>, 2, 6>> }

AnonymizeExampleCall == Anonymize(ExampleText, ExampleMatches)

NextStats ==
    \/ AnonymizeCall
    \/ AnonymizeExampleCall
    \/ ResetCall

SpecStats == Init /\ [][NextStats]_vars

RECURSIVE SumOver(_, _)
SumOver(f, S) ==
    IF S = {} THEN 0
    ELSE LET x == CHOOSE y \in S : TRUE IN f[x] + SumOver(f, S \ {x})

Fresh == mappings = EmptyMap /\ reverse_mappings = <<>> /\ counters = EmptyMap

\* C17: the stats of an anonymize call that returns map each pattern type to
\* the number of detections of that type in that call: types without a
\* detection have no entry, the counts sum to the number of detections,
\* nothing is carried over from earlier calls, and the text with one e-mail
\* and one IPv4 address gives {email: 1, ipv4: 1} with [EMAIL_001] and
\* [IP_001] on a fresh instance.
C17_StatsPerCall ==
    [][(last'.op = "anonymize" /\ last'.raised = "no") =>
          LET dets == last'.detections
              OfType(t) == {i \in 1..Len(dets) : dets[i].pattern_type = t}
          IN  /\ DOMAIN stats' = {dets[i].pattern_type : i \in 1..Len(dets)}
              /\ \A t \in DOMAIN stats' : stats'[t] = Cardinality(OfType(t))
              /\ SumOver(stats', DOMAIN stats') = Len(dets)
              /\ (Fresh /\ last'.text = ExampleText) =>
                    /\ stats' = ("email" :> 1) @@ ("ipv4" :> 1)
                    /\ last'.anonymized_text =
                          <<"[", "E", "M", "A", "I", "L", "_", "0", "0", "1", "]">>
                              \o <<" ">> \o <<"[", "I", "P", "_", "0", "0", "1", "]">>
      ]_vars

\* the example text is anonymized after a call that replaced a URL: the URL
\* counter is kept and the stats hold the two types of this call only
C17_Witness ==
    /\ AnonymizeReturned
    /\ hist.calls = 2
    /\ last.text = ExampleText
    /\ PREFIXES["url"] \in DOMAIN counters
    /\ stats = ("email" :> 1) @@ ("ipv4" :> 1)

(***************************************************************************)
(* load_preset among the other configuration calls.  PresetFiles adds a     *)
(* preset whose pattern names are written in upper and mixed case, one of   *)
(* them the member name MAC_ADDRESS, and that has no preserve and no        *)
(* custom_patterns key.                                                     *)
(***************************************************************************)
PresetFiles ==
    Presets \cup
    { [found |-> TRUE,
       patterns |-> <<<<"U", "R", "L">>,
                      <<"E", "m", "a", "i", "l">>,
                      <<"M", "A", "C", "_", "A", "D", "D", "R", "E", "S", "S">>>>,
       preserve |-> <<>>,
       custom_patterns |-> <<>>] }

LoadPresetFileCall == \E preset \in PresetFiles : LoadPreset(preset)

NextPreset ==
    \/ LoadPresetFileCall
    \/ SetPatternEnabledCall
    \/ AddPreserveValueCall
    \/ AnonymizeShortCall

SpecPreset == Init /\ [][NextPreset]_vars

\* the pattern types a preset lists: the names that are the value of a
\* pattern type, whatever their case
ListedTypes(preset) ==
    {pt \in PatternType :
        \E i \in 1..Len(preset.patterns) :
            Lower(preset.patterns[i]) = TypeValue(pt)}

LegacyLoadPreset(preset) ==
    /\ IF ~preset.found
          THEN /\ UNCHANGED <<enabled_patterns, preserve_list, custom_patterns>>
               /\ last' = [op |-> "load_preset", preset |-> preset,
                           ret |-> "False"]
          ELSE /\ \E listed \in {{PatternTypeOf(Lower(preset.patterns[i])) :
                                        i \in 1..Len(preset.patterns)}} :
                      enabled_patterns' = [pt \in PatternType |-> pt \in listed]
               /\ preserve_list' = preset.preserve
               /\ custom_patterns' = PresetCustom(preset.custom_patterns, 1)
               /\ last' = [op |-> "load_preset", preset |-> preset,
                           ret |-> "True"]
    /\ UNCHANGED <<mappings, reverse_mappings, counters, stats, compiled_custom,
                   enhancer_on, hist>>
    /\ UNCHANGED <<resolverVars, callerVars>>

LegacyLoadPresetCall == \E preset \in Presets : LegacyLoadPreset(preset)

\* the bodies of POST /anonymize
ApiRequests ==
    [text : {<<"a">>},
     reset_mappings : BOOLEAN,
     enabled_patterns : {{}, {"url"}},
     custom_patterns : {<<>>, << [regex |-> OtherRegex, prefix |-> "CUSTOM"] >>},
     preserve_values : {<<>>}]

\* the configuration the route leaves in the engine before it calls anonymize:
\* a new Anonymizer when reset_mappings is set, every flag set from the
\* request, custom_patterns cleared in place and refilled through
\* add_custom_pattern, preserve_list cleared and refilled
ApiConfigured(req) ==
    LET added == PresetCustom(req.custom_patterns, 1)
    IN  [reg |-> IF req.reset_mappings THEN Registry(EmptyMap, <<>>, EmptyMap)
                 ELSE Registry(mappings, reverse_mappings, counters),
         stats |-> IF req.reset_mappings THEN EmptyMap ELSE stats,
         enabled_patterns |-> [pt \in PatternType |-> pt \in req.enabled_patterns],
         custom_patterns |-> added,
         compiled_custom |-> IF req.reset_mappings \/ added # <<>> THEN <<>>
                             ELSE compiled_custom,
         preserve_list |-> req.preserve_values,
         enhancer_on |-> IF req.reset_mappings THEN FALSE ELSE enhancer_on]

ApiAnonymize(req, c, M) ==
    /\ hist.calls < MaxCalls
    /\ \E d \in {Detect(req.text, M, c.enabled_patterns, c.custom_patterns,
                        c.preserve_list, c.compiled_custom, c.enhancer_on)} :
       \E r \in {ReplaceLoop(d.detections, Len(d.detections), c.reg, req.text,
                             EmptyMap, <<>>)} :
       \E h \in {IF req.reset_mappings
                     THEN [hist EXCEPT !.first = EmptyMap, !.since = EmptyMap,
                                       !.onlyAnonymize = FALSE]
                     ELSE [hist EXCEPT !.onlyAnonymize = FALSE]} :
           /\ compiled_custom' = d.compiled_custom
           /\ IF d.raised # "no"
                 THEN /\ mappings' = c.reg.mappings
                      /\ reverse_mappings' = c.reg.reverse_mappings
                      /\ counters' = c.reg.counters
                      /\ stats' = c.stats
                      /\ last' = [op |-> "anonymize", text |-> req.text,
                                  raised |-> d.raised, detections |-> <<>>,
                                  anonymized_text |-> <<>>, created |-> <<>>,
                                  applied |-> d.applied]
                      /\ hist' = [h EXCEPT !.calls = @ + 1]
                 ELSE /\ mappings' = r.reg.mappings
                      /\ reverse_mappings' = r.reg.reverse_mappings
                      /\ counters' = r.reg.counters
                      /\ stats' = r.stats
                      /\ last' = [op |-> "anonymize", text |-> req.text,
                                  raised |-> "no", detections |-> r.detections,
                                  anonymized_text |-> r.result,
                                  created |-> r.created,
                                  applied |-> d.applied]
                      /\ hist' = [h EXCEPT
                                    !.calls = @ + 1,
                                    !.issued = RecordIssued(@, r.created),
                                    !.since = RecordIssued(@, r.created),
                                    !.first = RecordFirst(@, r.detections)]
    /\ enabled_patterns' = c.enabled_patterns
    /\ custom_patterns' = c.custom_patterns
    /\ preserve_list' = c.preserve_list
    /\ enhancer_on' = c.enhancer_on
    /\ UNCHANGED <<resolverVars, callerVars>>

ApiAnonymizeCall ==
    \E req \in ApiRequests :
        \E c \in {ApiConfigured(req)} :
            \E M \in Oracles(req.text, c.enabled_patterns, c.custom_patterns,
                              c.compiled_custom, c.enhancer_on) :
                ApiAnonymize(req, c, M)

NextCache ==
    \/ AddCompilingPatternCall
    \/ LoadPresetCall
    \/ LegacyLoadPresetCall
    \/ LoadSessionStateCall
    \/ ApiAnonymizeCall
    \/ AnonymizeShortCall

SpecCache == Init /\ [][NextCache]_vars

\* C19: at every detect call the compiled regex applied for the i-th custom
\* pattern is the one compiled from the regex now at position i of
\* custom_patterns, and the compiled cache never holds an entry of a pattern
\* that was replaced, whatever calls changed the list in between.
C19_CompiledFollowsList ==
    [][/\ (last'.op = "anonymize") =>
             \A k \in 1..Len(last'.applied) :
                 /\ last'.applied[k][1] < Len(custom_patterns')
                 /\ last'.applied[k][2] =
                        custom_patterns'[last'.applied[k][1] + 1][1]
       /\ \A i \in 1..Len(compiled_custom') :
             /\ i <= Len(custom_patterns')
             /\ compiled_custom'[i][1] = custom_patterns'[i][1]
      ]_vars

(***************************************************************************)
(* detect with an enhancer that reports entities of validated types: a      *)
(* LOCATION (a hostname for the engine) and an IP_ADDRESS, next to the      *)
(* catalog's hostname regex.                                                *)
(***************************************************************************)
ValidatedLabels == {"LOCATION", "IP_ADDRESS"}

ValidatedSlots(text, enabled, enhOn) ==
    LET n == Len(text)
    IN  {<<<<"cat", t>>, a, b>> : t \in {u \in {"hostname"} : enabled[u]},
                a \in 0..(n - 1), b \in 1..n} \cup
        (IF enhOn
            THEN {<<<<"enh", l>>, a, b>> : l \in ValidatedLabels,
                        a \in 0..(n - 1), b \in 1..n}
            ELSE {})

ValidatedOracles(text, enabled, enhOn) ==
    LET S == {x \in ValidatedSlots(text, enabled, enhOn) : SlotOk(x)}
    IN  {M \in SubsetsUpTo(S, MaxMatches) : OracleOk(M)}

AnonymizeValidatedCall ==
    \E text \in Texts :
        \E M \in ValidatedOracles(text, enabled_patterns, enhancer_on) :
            Anonymize(text, M)

SetValidatedFlagCall ==
    \E pt \in {"hostname", "ipv4"}, enabled \in BOOLEAN :
        SetPatternEnabled(pt, enabled)

NextValidated ==
    \/ SetEnhancerEnabledCall
    \/ SetValidatedFlagCall
    \/ AnonymizeValidatedCall

SpecValidated == Init /\ [][NextValidated]_vars

\* C20: every detection a call returns satisfies the validator for its own
\* type, whichever source produced it, enhancer candidates included.
C20_DetectionsValidated ==
    AnonymizeReturned =>
        \A i \in 1..Len(last.detections) :
            ValidateDetection(last.detections[i].value,
                              last.detections[i].pattern_type) = "True"

(***************************************************************************)
(* detect called on its own, with an enhancer that reports a confidence     *)
(* with each entity.  The call record keeps what the regex library and the  *)
(* enhancer reported.                                                       *)
(***************************************************************************)
\* detect(text) (lines 272-412): only the compiled custom patterns change
DetectText(text, M) ==
    /\ hist.calls < MaxCalls
    /\ \E d \in {Detect(text, M, enabled_patterns, custom_patterns,
                        preserve_list, compiled_custom, enhancer_on)} :
           /\ compiled_custom' = d.compiled_custom
           /\ last' = [op |-> "detect", text |-> text, raised |-> d.raised,
                       detections |-> d.detections, reported |-> M]
    /\ hist' = [hist EXCEPT !.calls = @ + 1]
    /\ UNCHANGED <<mappings, reverse_mappings, counters, stats,
                   enabled_patterns, custom_patterns, preserve_list,
                   enhancer_on>>
    /\ UNCHANGED <<resolverVars, callerVars>>

\* EnhancerConfig.confidence_threshold, in tenths
ConfidenceThreshold == 7

\* confidences an enhancer reports, below and above the threshold
Confidences == {3, 9}

ScoredSlots(text, enabled, enhOn) ==
    LET n == Len(text)
    IN  {<<<<"cat", t>>, a, b>> : t \in {u \in {"url"} : enabled[u]},
                a \in 0..(n - 1), b \in 1..n} \cup
        (IF enhOn
            THEN {<<<<"enh", l, c>>, a, b>> : l \in EnhancerLabels,
                        c \in Confidences, a \in 0..(n - 1), b \in 1..n}
            ELSE {})

ScoredOracles(text, enabled, enhOn) ==
    LET S == {x \in ScoredSlots(text, enabled, enhOn) : SlotOk(x)}
    IN  {M \in SubsetsUpTo(S, MaxMatches) : OracleOk(M)}

DetectScoredCall ==
    \E text \in Texts :
        \E M \in ScoredOracles(text, enabled_patterns, enhancer_on) :
            DetectText(text, M)

NextScored ==
    \/ SetEnhancerEnabledCall
    \/ DetectScoredCall

SpecScored == Init /\ [][NextScored]_vars

\* a report accounts for a detection of its span and of its type
Explains(x, det) ==
    /\ det.start = x[2]
    /\ det.end = x[3]
    /\ det.pattern_type = (CASE x[1][1] = "enh" -> ToPatternType(x[1][2])
                             [] x[1][1] = "cat" -> x[1][2]
                             [] OTHER -> "custom")

\* a report the core may turn into a detection: a regex match, or an
\* enhancer result that reaches the threshold
Admissible(x) == x[1][1] # "enh" \/ Confidence(x[1]) >= ConfidenceThreshold

\* C21: no enhancer result below the confidence threshold becomes a
\* detection: every detection detect returns is accounted for by a regex
\* match or by an enhancer result that reaches the threshold.
C21_LowConfidenceDropped ==
    (last.op = "detect" /\ last.raised = "no") =>
        \A i \in 1..Len(last.detections) :
            \E x \in last.reported :
                Admissible(x) /\ Explains(x, last.detections[i])

(***************************************************************************)
(* detect with patterns that have capture groups: the catalog's api_key     *)
(* regex (one group, of 16 characters or more when it takes part) and a     *)
(* custom regex with two groups, the first of which may match the empty     *)
(* string.                                                                  *)
(***************************************************************************)
GroupRegex == "(x*)(y)?z"

AddGroupPatternCall == AddCustomPattern(GroupRegex, "CUSTOM")

NoGroup == <<-1, -1>>

GroupSlots(text, enabled, cpats, cache) ==
    LET n == Len(text)
        Spans == {sp \in (0..(n - 1)) \X (1..n) : sp[1] < sp[2]}
    IN  UNION {
            {<<<<"cat", "api_key">>, sp[1], sp[2], <<g>>>> :
                g \in {NoGroup, sp}} \cup
            {<<<<"cus", r>>, sp[1], sp[2], <<g1, g2>>>> :
                r \in RegexesInUse(cpats, cache) \cap {GroupRegex},
                g1 \in {NoGroup, <<sp[1], sp[1]>>, sp},
                g2 \in {NoGroup, sp}}
            : sp \in Spans}

GroupOracles(text, enabled, cpats, cache) ==
    LET S == {x \in GroupSlots(text, enabled, cpats, cache) : SlotOk(x)}
    IN  {M \in SubsetsUpTo(S, MaxMatches) :
            /\ OracleOk(M)
            /\ \A x, y \in M :
                  (x[1] = y[1] /\ x[2] = y[2] /\ x[3] = y[3]) => x = y}

DetectGroupsCall ==
    \E M \in GroupOracles(<<"a", "B">>, enabled_patterns, custom_patterns,
                           compiled_custom) :
        DetectText(<<"a", "B">>, M)

NextGroups ==
    \/ AddGroupPatternCall
    \/ DetectGroupsCall

SpecGroups == Init /\ [][NextGroups]_vars

\* the first group, in group order, that is not empty
RECURSIVE FirstNonEmptyGroup(_, _)
FirstNonEmptyGroup(groups, i) ==
    IF i > Len(groups) THEN <<>>
    ELSE IF groups[i][1] < groups[i][2] THEN groups[i]
    ELSE FirstNonEmptyGroup(groups, i + 1)

\* the span a detection takes from a reported match
SpanOf(x) ==
    LET g == IF Len(x) >= 4 THEN FirstNonEmptyGroup(x[4], 1) ELSE <<>>
    IN  IF g = <<>> THEN <<x[2], x[3]>> ELSE g

\* C22: the value and span of a detection made from a regex match are those
\* of the first capture group that is non-empty, the whole match if there is
\* none: a group that matched the empty string is skipped.
C22_FirstNonEmptyGroup ==
    (last.op = "detect" /\ last.raised = "no") =>
        \A i \in 1..Len(last.detections) :
            \E x \in last.reported :
                /\ last.detections[i].pattern_type =
                        (IF x[1][1] = "cat" THEN x[1][2] ELSE "custom")
                /\ <<last.detections[i].start, last.detections[i].end>> = SpanOf(x)
                /\ last.detections[i].value =
                        Slice(last.text, SpanOf(x)[1], SpanOf(x)[2])

(***************************************************************************)
(* detect with the sources whose spans the regex library does not bound:    *)
(* a custom regex that can match the empty string, and an enhancer that     *)
(* reports any offsets.                                                     *)
(***************************************************************************)
SpanSlots(text, cpats, cache, enhOn) ==
    LET n == Len(text)
    IN  {<<<<"cus", r>>, a, b>> : r \in RegexesInUse(cpats, cache),
                a \in 0..n, b \in 0..n} \cup
        (IF enhOn
            THEN {<<<<"enh", l>>, a, b>> : l \in EnhancerLabels,
                        a \in (-1)..n, b \in 0..(n + 1)}
            ELSE {})

SpanOracles(text, cpats, cache, enhOn) ==
    LET S == {x \in SpanSlots(text, cpats, cache, enhOn) :
                    x[1][1] = "cus" => x[2] <= x[3]}
    IN  {M \in SubsetsUpTo(S, MaxMatches) :
            \A x, y \in M :
                (x # y /\ x[1] = y[1] /\ x[1][1] = "cus" /\ Before(x, y))
                    => x[3] <= y[2]}

DetectSpansCall ==
    \E M \in SpanOracles(<<"a">>, custom_patterns, compiled_custom,
                          enhancer_on) :
        DetectText(<<"a">>, M)

NextSpans ==
    \/ AddCompilingPatternCall
    \/ SetEnhancerEnabledCall
    \/ DetectSpansCall

SpecSpans == Init /\ [][NextSpans]_vars

\* C23: every detection detect returns satisfies 0 <= start < end <= len(text),
\* whichever source produced it.
C23_SpanWithinText ==
    (last.op = "detect" /\ last.raised = "no") =>
        \A i \in 1..Len(last.detections) :
            /\ 0 <= last.detections[i].start
            /\ last.detections[i].start < last.detections[i].end
            /\ last.detections[i].end <= Len(last.text)

\* the text with the span of each detection, taken left to right, replaced by
\* the detection's placeholder and everything between the spans kept
RECURSIVE Substituted(_, _, _, _)
Substituted(text, dets, i, pos) ==
    IF i > Len(dets) THEN Slice(text, pos, Len(text))
    ELSE Slice(text, pos, dets[i].start) \o dets[i].placeholder
            \o Substituted(text, dets, i + 1, dets[i].end)

\* C24: the anonymized text is the text in which the span of each returned
\* detection is replaced by its placeholder and every character outside the
\* spans is kept in place; replacing from the last detection to the first
\* shifts no offset still to be used.
C24_SpansReplaced ==
    AnonymizeReturned =>
        last.anonymized_text = Substituted(last.text, last.detections, 1, 0)

(***************************************************************************)
(* The validator called with every pattern type on short values: dotted     *)
(* values with and without digits, addresses, digit runs and paths.         *)
(***************************************************************************)
ValidateValues ==
    { <<"1", ".", "2", ".", "3", ".", "4">>,
      <<"a", ".", "b", ".", "c", ".", "d">>,
      <<"4", "0", ".", "1", ".", "1", ".", "1">>,
      <<"1", ".", "x", ".", "0", ".", "0">>,
      <<"1", ".", "2", ".", "3">>,
      <<"a", ".", "b">>,
      <<"1", ".", "2">>,
      <<"a", "@", "b", ".", "c">>,
      <<"a", "@", "b">>,
      <<"a", ".", "b", "@", "c">>,
      <<"1", "2", "3", "4", "5", "6", "7", "8">>,
      <<"1", "2", "3", "4", "5", "6", "7">>,
      <<"/", "a", "/", "b">>,
      <<"/", "a">>,
      <<"h", "t", "t", "p", "/", "a", "/", "b">>,
      <<>> }

ValidateAnyCall ==
    \E value \in ValidateValues, pattern_type \in PatternType :
        Validate(value, pattern_type)

NextValidateAny == ValidateAnyCall

SpecValidateAny == Init /\ [][NextValidateAny]_vars

\* what the validator is to accept, type by type
Accepted(value, pattern_type) ==
    LET n == Len(value)
        digits == Cardinality({i \in 1..n : IsDigit(value[i])})
    IN  CASE pattern_type = "ipv4" -> CountChar(value, ".") = 3
          [] pattern_type = "hostname" ->
                /\ \E i \in 1..n : value[i] = "."
                /\ \E i \in 1..n : ~IsDigit(value[i]) /\ value[i] # "."
          [] pattern_type = "email" ->
                \E i \in 1..n :
                    /\ value[i] = "@"
                    /\ \A j \in (i + 1)..n : value[j] # "@"
                    /\ \E j \in (i + 1)..n : value[j] = "."
          [] pattern_type = "phone" -> digits >= 8
          [] pattern_type = "path_unix" ->
                /\ ~(n >= 4 /\ SubSeq(value, 1, 4) = <<"h", "t", "t", "p">>)
                /\ CountChar(value, "/") >= 2
          [] OTHER -> TRUE

\* C25: validate returns a boolean for every value and every pattern type,
\* never raises and changes no state; ipv4 is accepted exactly with 4
\* dot-separated parts, hostname with a dot and a character that is neither
\* digit nor dot, email with an '@' and a '.' after the last '@', phone with 8
\* digits or more, path_unix when it does not start with 'http' and has 2 '/'
\* or more, and every other type but credit_card always.
C25_ValidateTotal ==
    [][(last'.op = "validate") =>
          /\ last'.ret \in {"True", "False"}
          /\ last'.pattern_type # "credit_card" =>
                (last'.ret = "True" <=> Accepted(last'.value, last'.pattern_type))
          /\ UNCHANGED <<mappings, reverse_mappings, counters, stats,
                         enabled_patterns, custom_patterns, preserve_list,
                         compiled_custom, enhancer_on>>
      ]_vars

\* the two spans share a character
Intersect(a, b) == a.start < b.end /\ b.start < a.end

\* C26: every candidate of positive length offered to the overlap resolver
\* during a detect call intersects a detection of the returned list: no
\* candidate is lost because the interval that rejected or evicted it was
\* evicted later.
C26_OfferedIsCovered ==
    rs.phase = "returned" =>
        \A cand \in {c \in rs.offered : c.start < c.end} :
            \E i \in 1..Len(rs.result) : Intersect(cand, rs.result[i])

(***************************************************************************)
(* Session state dictionaries and the objects they hold.                   *)
(* get_session_state (lines 577-588) puts the instance's own mappings,     *)
(* reverse_mappings, counters, custom_patterns and preserve_list objects   *)
(* into the dictionary it returns; only enabled_patterns is a new          *)
(* dictionary.  load_session_state (lines 590-602) binds the instance's    *)
(* attributes to the objects of the dictionary it is given.  anonymize,    *)
(* reset and add_custom_pattern change these objects in place (lines       *)
(* 201-203, 212, 259-264), so a shared field of the dictionary reads what  *)
(* the instance's attribute reads.                                         *)
(***************************************************************************)
\* the fields of the dictionary that are the instance's own objects
SharedFields ==
    {"mappings", "reverse_mappings", "counters", "custom_patterns",
     "preserve_list"}

\* what the instance's attributes hold now
Attributes ==
    [mappings |-> mappings, reverse_mappings |-> reverse_mappings,
     counters |-> counters, custom_patterns |-> custom_patterns,
     preserve_list |-> preserve_list,
     enabled_patterns |-> {pt \in PatternType : enabled_patterns[pt]}]

\* what the dictionary the caller holds reads now: a shared field is the
\* instance's object, any other field is the dictionary's own
StateDict ==
    [f \in DOMAIN session_state.own |->
        IF f \in session_state.shared THEN Attributes[f]
        ELSE session_state.own[f]]

\* what a second instance that loaded the same dictionary reads in its
\* registry: the dictionary's objects (lines 593-595)
SecondInstance ==
    [f \in {"mappings", "reverse_mappings", "counters"} |-> StateDict[f]]

\* state = get_session_state()
GetSessionStateCall ==
    /\ session_state' = [held |-> TRUE, kind |-> "exported",
                         shared |-> SharedFields, own |-> Attributes,
                         snapshot |-> Attributes]
    /\ last' = [op |-> "get_session_state"]
    /\ UNCHANGED <<mappings, reverse_mappings, counters, stats,
                   enabled_patterns, custom_patterns, preserve_list,
                   compiled_custom, enhancer_on, hist>>
    /\ UNCHANGED <<resolverVars, requests>>

\* load_session_state(state) on this instance and on a second, new instance,
\* with the same dictionary
LoadSharedState(state) ==
    /\ mappings' = state.reg.mappings
    /\ reverse_mappings' = state.reg.reverse_mappings
    /\ counters' = state.reg.counters
    /\ enabled_patterns' = [pt \in PatternType |-> pt \notin state.disabled]
    /\ custom_patterns' = state.custom_patterns
    /\ preserve_list' = state.preserve_list
    /\ enhancer_on' = state.enhancers_enabled
    /\ \E given \in {[mappings |-> state.reg.mappings,
                      reverse_mappings |-> state.reg.reverse_mappings,
                      counters |-> state.reg.counters,
                      custom_patterns |-> state.custom_patterns,
                      preserve_list |-> state.preserve_list,
                      enabled_patterns |-> PatternType \ state.disabled]} :
          session_state' = [held |-> TRUE, kind |-> "loaded",
                            shared |-> SharedFields, own |-> given,
                            snapshot |-> given]
    /\ last' = [op |-> "load_session_state", wellformed |-> TRUE,
                ret |-> "True", raised |-> "no"]
    /\ hist' = [hist EXCEPT !.first = EmptyMap, !.since = EmptyMap,
                            !.onlyAnonymize = FALSE]
    /\ UNCHANGED <<stats, compiled_custom>>
    /\ UNCHANGED <<resolverVars, requests>>

LoadSharedStateCall ==
    \E state \in {s \in SessionStates : s.kind = "dict"} : LoadSharedState(state)

NextShared ==
    \/ GetSessionStateCall
    \/ LoadSharedStateCall
    \/ AnonymizeShortCall
    \/ ResetCall
    \/ AddCompilingPatternCall

SpecShared == Init /\ [][NextShared]_vars

\* C27: a dictionary returned by get_session_state or given to
\* load_session_state reads, after any later anonymize, reset or
\* add_custom_pattern call on the instance, what it read when the call
\* returned, and a second instance loaded from the same dictionary still has
\* the registry it loaded.
C27_StateIndependent ==
    session_state.held =>
        /\ StateDict = session_state.snapshot
        /\ session_state.kind = "loaded" =>
              \A f \in DOMAIN SecondInstance :
                  SecondInstance[f] = session_state.snapshot[f]

(***************************************************************************)
(* Two requests to /anonymize served at once by the shared instance.       *)
(* routes.py keeps one module-level Anonymizer (lines 16-17) and the route *)
(* (lines 73-109) takes no lock, so the statements of two requests         *)
(* interleave.  Each request is followed statement by statement through    *)
(* anonymize (lines 513-536) and _get_placeholder (lines 250-266); the     *)
(* configuration part of the route and the detect call are one step each.  *)
(***************************************************************************)
\* requests served at the same time
MaxRequests == 2

\* request bodies: reset_mappings false, so both requests use one instance
ServedRequests ==
    [text : {<<"a">>, <<"b">>},
     reset_mappings : {FALSE},
     enabled_patterns : {{"url"}},
     custom_patterns : {<<>>},
     preserve_values : {<<>>}]

\* the request arrives: the locals of its route and of its anonymize call
ApiReceive ==
    /\ Len(requests) < MaxRequests
    /\ \E req \in ServedRequests :
          requests' = Append(requests,
              [pc |-> "configure", req |-> req, detections |-> <<>>, i |-> 0,
               result |-> <<>>, value |-> <<>>, prefix |-> <<>>,
               placeholder |-> <<>>, created |-> <<>>])
    /\ UNCHANGED <<engineVars, resolverVars, session_state>>

\* routes.py lines 77-98: flags, custom patterns and preserve list set from
\* the request
ApiConfigure(k) ==
    /\ requests[k].pc = "configure"
    /\ \E c \in {ApiConfigured(requests[k].req)} :
          /\ enabled_patterns' = c.enabled_patterns
          /\ custom_patterns' = c.custom_patterns
          /\ compiled_custom' = c.compiled_custom
          /\ preserve_list' = c.preserve_list
    /\ requests' = [requests EXCEPT ![k].pc = "detect"]
    /\ UNCHANGED <<mappings, reverse_mappings, counters, stats, enhancer_on,
                   last, hist>>
    /\ UNCHANGED <<resolverVars, session_state>>

\* anonymizer.py lines 517-519: detect, result = text, stats.clear()
ApiDetect(k) ==
    /\ requests[k].pc = "detect"
    /\ \E M \in Oracles(requests[k].req.text, enabled_patterns, custom_patterns,
                         compiled_custom, enhancer_on) :
       \E d \in {Detect(requests[k].req.text, M, enabled_patterns,
                        custom_patterns, preserve_list, compiled_custom,
                        enhancer_on)} :
          /\ compiled_custom' = d.compiled_custom
          /\ IF d.raised # "no"
                THEN /\ requests' = [requests EXCEPT ![k].pc = "done"]
                     /\ UNCHANGED stats
                ELSE /\ requests' = [requests EXCEPT
                                        ![k].pc = "loop",
                                        ![k].detections = d.detections,
                                        ![k].i = Len(d.detections),
                                        ![k].result = requests[k].req.text]
                     /\ stats' = EmptyMap
    /\ UNCHANGED <<mappings, reverse_mappings, counters, enabled_patterns,
                   custom_patterns, preserve_list, enhancer_on, last, hist>>
    /\ UNCHANGED <<resolverVars, session_state>>

\* lines 522-524: next detection from the end, its prefix, the call
ApiLoop(k) ==
    /\ requests[k].pc = "loop"
    /\ IF requests[k].i < 1
          THEN requests' = [requests EXCEPT ![k].pc = "return"]
          ELSE \E det \in {requests[k].detections[requests[k].i]} :
                  requests' = [requests EXCEPT
                                  ![k].pc = "check",
                                  ![k].value = det.value,
                                  ![k].prefix = PREFIXES[det.pattern_type]]
    /\ UNCHANGED <<engineVars, resolverVars, session_state>>

\* lines 255-256: if value in self.mappings: return self.mappings[value]
ApiCheck(k) ==
    /\ requests[k].pc = "check"
    /\ IF requests[k].value \in DOMAIN mappings
          THEN requests' = [requests EXCEPT
                               ![k].pc = "replace",
                               ![k].placeholder = mappings[requests[k].value]]
          ELSE requests' = [requests EXCEPT ![k].pc = "init"]
    /\ UNCHANGED <<engineVars, resolverVars, session_state>>

\* lines 258-259: if prefix not in self.counters: self.counters[prefix] = 0
ApiInitCounter(k) ==
    /\ requests[k].pc = "init"
    /\ counters' = IF requests[k].prefix \in DOMAIN counters THEN counters
                   ELSE (requests[k].prefix :> 0) @@ counters
    /\ requests' = [requests EXCEPT ![k].pc = "increment"]
    /\ UNCHANGED <<mappings, reverse_mappings, stats, enabled_patterns,
                   custom_patterns, preserve_list, compiled_custom,
                   enhancer_on, last, hist>>
    /\ UNCHANGED <<resolverVars, session_state>>

\* line 260: self.counters[prefix] += 1
ApiIncrement(k) ==
    /\ requests[k].pc = "increment"
    /\ counters' = [counters EXCEPT ![requests[k].prefix] = @ + 1]
    /\ requests' = [requests EXCEPT ![k].pc = "format"]
    /\ UNCHANGED <<mappings, reverse_mappings, stats, enabled_patterns,
                   custom_patterns, preserve_list, compiled_custom,
                   enhancer_on, last, hist>>
    /\ UNCHANGED <<resolverVars, session_state>>

\* line 262: placeholder = f"[{prefix}_{self.counters[prefix]:03d}]"
ApiFormat(k) ==
    /\ requests[k].pc = "format"
    /\ \E placeholder \in {FormatPlaceholder(requests[k].prefix,
                                             counters[requests[k].prefix])} :
          requests' = [requests EXCEPT
                          ![k].pc = "map",
                          ![k].placeholder = placeholder,
                          ![k].created = Append(@, <<placeholder,
                                                     requests[k].value>>)]
    /\ UNCHANGED <<engineVars, resolverVars, session_state>>

\* line 263: self.mappings[value] = placeholder
ApiMap(k) ==
    /\ requests[k].pc = "map"
    /\ mappings' = (requests[k].value :> requests[k].placeholder) @@ mappings
    /\ requests' = [requests EXCEPT ![k].pc = "reverse"]
    /\ UNCHANGED <<reverse_mappings, counters, stats, enabled_patterns,
                   custom_patterns, preserve_list, compiled_custom,
                   enhancer_on, last, hist>>
    /\ UNCHANGED <<resolverVars, session_state>>

\* lines 264-266: self.reverse_mappings[placeholder] = value, return
ApiReverse(k) ==
    /\ requests[k].pc = "reverse"
    /\ reverse_mappings' = ODSet(reverse_mappings, requests[k].placeholder,
                                 requests[k].value)
    /\ requests' = [requests EXCEPT ![k].pc = "replace"]
    /\ UNCHANGED <<mappings, counters, stats, enabled_patterns,
                   custom_patterns, preserve_list, compiled_custom,
                   enhancer_on, last, hist>>
    /\ UNCHANGED <<resolverVars, session_state>>

\* lines 525-529: det.placeholder, the text spliced, the statistic counted
ApiReplace(k) ==
    /\ requests[k].pc = "replace"
    /\ \E r \in {requests[k]} :
       \E det \in {r.detections[r.i]} :
          /\ requests' = [requests EXCEPT
                ![k].pc = "loop",
                ![k].detections = [@ EXCEPT ![r.i].placeholder = r.placeholder],
                ![k].result = Slice(r.result, 0, det.start) \o r.placeholder
                                 \o Slice(r.result, det.end, Len(r.result)),
                ![k].i = r.i - 1]
          /\ stats' = Bump(stats, det.pattern_type)
    /\ UNCHANGED <<mappings, reverse_mappings, counters, enabled_patterns,
                   custom_patterns, preserve_list, compiled_custom,
                   enhancer_on, last, hist>>
    /\ UNCHANGED <<resolverVars, session_state>>

\* lines 531-536 and routes.py lines 103-109: the response
ApiReturn(k) ==
    /\ requests[k].pc = "return"
    /\ requests' = [requests EXCEPT ![k].pc = "done"]
    /\ last' = [op |-> "api_anonymize", request |-> k,
                anonymized_text |-> requests[k].result,
                detections |-> requests[k].detections,
                created |-> requests[k].created]
    /\ UNCHANGED <<mappings, reverse_mappings, counters, stats,
                   enabled_patterns, custom_patterns, preserve_list,
                   compiled_custom, enhancer_on, hist>>
    /\ UNCHANGED <<resolverVars, session_state>>

ApiConfigureCall == \E k \in 1..Len(requests) : ApiConfigure(k)

ApiDetectCall == \E k \in 1..Len(requests) : ApiDetect(k)

ApiLoopCall == \E k \in 1..Len(requests) : ApiLoop(k)

ApiCheckCall == \E k \in 1..Len(requests) : ApiCheck(k)

ApiInitCounterCall == \E k \in 1..Len(requests) : ApiInitCounter(k)

ApiIncrementCall == \E k \in 1..Len(requests) : ApiIncrement(k)

ApiFormatCall == \E k \in 1..Len(requests) : ApiFormat(k)

ApiMapCall == \E k \in 1..Len(requests) : ApiMap(k)

ApiReverseCall == \E k \in 1..Len(requests) : ApiReverse(k)

ApiReplaceCall == \E k \in 1..Len(requests) : ApiReplace(k)

ApiReturnCall == \E k \in 1..Len(requests) : ApiReturn(k)

NextServed ==
    \/ ApiReceive
    \/ ApiConfigureCall
    \/ ApiDetectCall
    \/ ApiLoopCall
    \/ ApiCheckCall
    \/ ApiInitCounterCall
    \/ ApiIncrementCall
    \/ ApiFormatCall
    \/ ApiMapCall
    \/ ApiReverseCall
    \/ ApiReplaceCall
    \/ ApiReturnCall

SpecServed == Init /\ [][NextServed]_vars

\* the placeholders request k formatted
CreatedBy(k) == {requests[k].created[j][1] : j \in 1..Len(requests[k].created)}

\* C28: with two requests interleaved on the shared instance, no two distinct
\* values are mapped to one placeholder, no placeholder number is formatted
\* by two requests, and once every request has returned reverse_mappings is
\* the inverse of mappings.
C28_RegistryConsistent ==
    /\ \A v, w \in DOMAIN mappings : v # w => mappings[v] # mappings[w]
    /\ \A k, l \in 1..Len(requests) : k # l => CreatedBy(k) \cap CreatedBy(l) = {}
    /\ (\A k \in 1..Len(requests) : requests[k].pc = "done") =>
          /\ ODKeys(reverse_mappings) = {mappings[v] : v \in DOMAIN mappings}
          /\ \A v \in DOMAIN mappings :
                ODGet(reverse_mappings, mappings[v]) = v

\* the characters of a prefix registered with a custom pattern
PrefixChars(prefix) ==
    CASE prefix = "CUSTOM" -> <<"C", "U", "S", "T", "O", "M">>
      [] prefix = "TASK" -> <<"T", "A", "S", "K">>
      [] OTHER -> <<>>

\* the placeholder is "[" prefix "_" number "]"
HasPrefix(placeholder, prefix) ==
    /\ Len(placeholder) > Len(prefix) + 2
    /\ SubSeq(placeholder, 1, Len(prefix) + 2) = <<"[">> \o prefix \o <<"_">>

\* C29: a new placeholder written for a detection of a custom pattern starts
\* with the prefix registered with one of the custom patterns, and that
\* prefix has a counter after the call.
C29_CustomPrefix ==
    [][(last'.op = "anonymize" /\ last'.raised = "no") =>
          \A i \in 1..Len(last'.detections) :
              (/\ last'.detections[i].pattern_type = "custom"
               /\ \E j \in 1..Len(last'.created) :
                     last'.created[j] = <<last'.detections[i].placeholder,
                                          last'.detections[i].value>>)
              => \E c \in 1..Len(custom_patterns) :
                    /\ HasPrefix(last'.detections[i].placeholder,
                                 PrefixChars(custom_patterns[c][2]))
                    /\ PrefixChars(custom_patterns[c][2]) \in DOMAIN counters'
      ]_vars

\* the last detection of the list with the value of detection i: the
\* replacement loop meets it first
LastWithValue(dets, i) ==
    CHOOSE j \in i..Len(dets) :
        /\ dets[j].value = dets[i].value
        /\ \A l \in (j + 1)..Len(dets) : dets[l].value # dets[i].value

\* C30 as stated: in every anonymize call the placeholder written for a
\* detection of a catalog type starts with the prefix of that type.
C30_FixedPrefix ==
    [][(last'.op = "anonymize" /\ last'.raised = "no") =>
          \A i \in 1..Len(last'.detections) :
              last'.detections[i].pattern_type # "custom" =>
                  HasPrefix(last'.detections[i].placeholder,
                            PREFIXES[last'.detections[i].pattern_type])
      ]_vars

\* C30 amended: a detection of a catalog type whose value is already in the
\* registry is written with the placeholder the registry holds for the value,
\* whatever its prefix; a value that is new to the registry gets a placeholder
\* with the prefix of the type of the detection that the replacement loop
\* meets first for this value.
C30_PrefixOfFirstDetection ==
    [][(last'.op = "anonymize" /\ last'.raised = "no") =>
          \A i \in 1..Len(last'.detections) :
              last'.detections[i].pattern_type # "custom" =>
                  IF last'.detections[i].value \in DOMAIN mappings
                      THEN last'.detections[i].placeholder
                              = mappings[last'.detections[i].value]
                      ELSE HasPrefix(last'.detections[i].placeholder,
                               PREFIXES[last'.detections[
                                   LastWithValue(last'.detections, i)].pattern_type])
      ]_vars

\* an anonymize call has written, for a detection of a catalog type, the
\* placeholder issued in an earlier call with the prefix of another type
C30_Witness ==
    /\ last.op = "anonymize"
    /\ last.raised = "no"
    /\ \E i \in 1..Len(last.detections) :
          /\ last.detections[i].pattern_type # "custom"
          /\ ~HasPrefix(last.detections[i].placeholder,
                        PREFIXES[last.detections[i].pattern_type])
          /\ last.detections[i].value \in DOMAIN hist.first
          /\ hist.first[last.detections[i].value] = last.detections[i].placeholder
          /\ \A j \in 1..Len(last.created) :
                last.created[j][2] # last.detections[i].value

====
